---- MODULE Spec2Model ----
(***************************************************************************)
(* A model of the Rum editor core: Row (src/src/row.rs), Document          *)
(* (src/src/document.rs), the highlighter (Row::highlight) and the keys    *)
(* and commands of the Editor (src/src/editor.rs).                         *)
(*                                                                         *)
(* A Rust `char` is modelled as a TLA+ string naming one code point, a     *)
(* Rust `String` as the sequence of its code points.  Byte offsets, which  *)
(* the code mixes with char indices, are recovered through Utf8Len.        *)
(***************************************************************************)
EXTENDS Integers, Sequences, FiniteSets, TLC

VARIABLES
    rows,       \* Document.rows : sequence of Row records
    dirty,      \* Document.dirty
    opts,       \* Document.filetype.options() : HighlightingOptions
    outcome,    \* "ok" while the process runs, "panic" / "hang" once an operation did not return
    op,         \* the last Document operation: its name, inputs and returned value
    filename,   \* Document.filename : Option<String>
    file,       \* the bytes save left in the file of that name, NoFile before any save
    row,        \* the Row under test of the Row-level specifications
    prevString, \* row.string before the last Row operation
    prevLen,    \* row.len before the last Row operation
    rop,        \* the last Row operation: its name, inputs and returned value
    quit,       \* Editor.quit
    mode,       \* Editor.mode
    cursor_pos  \* Editor.cursor_pos

vars == <<rows, dirty, opts, outcome, op, filename, file, row, prevString, prevLen,
          rop, quit, mode, cursor_pos>>

docVars == <<rows, dirty, op, filename, file>>
rowVars == <<row, prevString, prevLen, rop>>
editorVars == <<quit, mode, cursor_pos>>

----------------------------------------------------------------------------
(* Bounds of the model *)

\* longest row text the Row-level specifications enumerate and edit
MaxRowLen == 3
\* longest row text of the Document-level specification
MaxDocLen == 2
\* most rows of the Document-level specification
MaxRows == 3

----------------------------------------------------------------------------
(* Characters and strings *)

NL == "\n"
CR == "\r"
\* U+0301 COMBINING ACUTE ACCENT: Grapheme_Extend, 2 bytes in UTF-8
CombiningAcute == "U+0301"
\* U+20AC EURO SIGN: 3 bytes in UTF-8
Euro == "U+20AC"

\* bytes of the UTF-8 encoding of a char inside a Rust String
Utf8Len(c) == IF c = Euro THEN 3 ELSE IF c = CombiningAcute THEN 2 ELSE 1

IsAscii(c) == Utf8Len(c) = 1

AsciiDigits == {"0", "1", "2", "3", "4", "5", "6", "7", "8", "9"}
AsciiLetters == {"a", "b", "c", "d", "e", "f", "i", "m", "n", "o", "r", "s", "t", "x",
                 "C", "l"}
AsciiPunct == {"/", "*", "\"", "'", "\\", ".", "(", ")", "=", "!", ";", "-"}
AsciiSpace == {" ", NL}

\* fn is_sep(c): c.is_ascii_punctuation() || c.is_ascii_whitespace()
is_sep(c) == c \in AsciiPunct \/ c \in AsciiSpace

is_ascii_digit(c) == c \in AsciiDigits

RECURSIVE ByteLen(_)
\* String::len(): the length in bytes
ByteLen(s) == IF s = <<>> THEN 0 ELSE Utf8Len(s[1]) + ByteLen(Tail(s))

\* the char index (0-based) that starts at byte offset b, or -1 when b is not a
\* char boundary of s (b = ByteLen(s) is the boundary at the end)
CharAtByte(s, b) ==
    LET ks == {k \in 0..Len(s) : ByteLen(SubSeq(s, 1, k)) = b}
    IN  IF ks = {} THEN -1 ELSE CHOOSE k \in ks : TRUE

\* str::find(pat): the char offset (0-based) of the first occurrence, -1 for None
StrFind(hay, pat) ==
    LET ps == {p \in 0..(Len(hay) - Len(pat)) : SubSeq(hay, p + 1, p + Len(pat)) = pat}
    IN  IF ps = {} THEN -1 ELSE CHOOSE p \in ps : \A q \in ps : p <= q

\* str::rfind(pat): the char offset of the last occurrence, -1 for None
StrRFind(hay, pat) ==
    LET ps == {p \in 0..(Len(hay) - Len(pat)) : SubSeq(hay, p + 1, p + Len(pat)) = pat}
    IN  IF ps = {} THEN -1 ELSE CHOOSE p \in ps : \A q \in ps : p >= q

\* the chars of s from char index k (0-based) on
From(s, k) == SubSeq(s, k + 1, Len(s))

Min(a, b) == IF a <= b THEN a ELSE b
\* usize::saturating_sub
SatSub(a, b) == IF a >= b THEN a - b ELSE 0

----------------------------------------------------------------------------
(* Grapheme clusters (unicode_segmentation::graphemes(true)) *)

IsExtend(c) == c = CombiningAcute
IsControl(c) == c \in {NL, CR}

RECURSIVE graphemes(_)
\* the extended grapheme clusters of s, each a sequence of chars: an Extend char
\* joins the cluster before it unless that cluster is a control char (GB4, GB9)
graphemes(s) ==
    IF s = <<>> THEN <<>>
    ELSE LET init == graphemes(SubSeq(s, 1, Len(s) - 1))
             c    == s[Len(s)]
         IN  IF IsExtend(c) /\ init # <<>> /\ ~IsControl(init[Len(init)][1])
             THEN [init EXCEPT ![Len(init)] = Append(@, c)]
             ELSE Append(init, <<c>>)

RECURSIVE Concat(_)
\* the string made of a sequence of clusters
Concat(gs) == IF gs = <<>> THEN <<>> ELSE gs[1] \o Concat(Tail(gs))

GraphemeCount(s) == Len(graphemes(s))

----------------------------------------------------------------------------
(* Row *)

\* impl From<&str> for Row
Row_from(slice) ==
    [string |-> slice, highlighting |-> <<>>, is_highlighted |-> FALSE,
     len |-> GraphemeCount(slice)]

\* Row::default()
Row_default == [string |-> <<>>, highlighting |-> <<>>, is_highlighted |-> FALSE, len |-> 0]

\* Row::insert(at, c)
Row_insert(r, at, c) ==
    IF at >= r.len
    THEN [r EXCEPT !.string = Append(r.string, c), !.len = r.len + 1]
    ELSE LET gs == graphemes(r.string)
             result == Concat([k \in 1..Len(gs) |->
                                  IF k - 1 = at THEN <<c>> \o gs[k] ELSE gs[k]])
             length == Len(gs) + (IF at < Len(gs) THEN 1 ELSE 0)
         IN  [r EXCEPT !.string = result, !.len = length]

\* Row::delete(at)
Row_delete(r, at) ==
    IF at >= r.len
    THEN r
    ELSE LET gs == graphemes(r.string)
             result == Concat([k \in 1..Len(gs) |-> IF k - 1 # at THEN gs[k] ELSE <<>>])
             length == Cardinality({k \in 1..Len(gs) : k - 1 # at})
         IN  [r EXCEPT !.string = result, !.len = length]

\* Row::append(new)
Row_append(r, new) ==
    [r EXCEPT !.string = r.string \o new.string, !.len = r.len + new.len]

\* Row::split(at): <<self afterwards, the returned row>>
Row_split(r, at) ==
    LET gs == graphemes(r.string)
        n  == Len(gs)
        keep == Min(at, n)
    IN  <<[r EXCEPT !.string = Concat(SubSeq(gs, 1, keep)), !.len = keep,
                    !.is_highlighted = FALSE],
          [string |-> Concat(SubSeq(gs, keep + 1, n)), highlighting |-> <<>>,
           is_highlighted |-> FALSE, len |-> n - keep]>>

Forward == "Forward"
Backward == "Backward"

\* Option<usize>::None of the find operations
NoMatch == -1

\* Row::find(query, at, direction): the grapheme index, or NoMatch
Row_find(r, query, at, direction) ==
    IF query = <<>> \/ at > r.len THEN NoMatch
    ELSE LET start == IF direction = Forward THEN at ELSE 0
             end   == IF direction = Forward THEN r.len ELSE at
             gs    == graphemes(r.string)
             taken == SubSeq(gs, start + 1, Min(start + (end - start), Len(gs)))
             substring == Concat(taken)
             m     == IF direction = Forward THEN StrFind(substring, query)
                                             ELSE StrRFind(substring, query)
             \* grapheme_indices(true) of substring: the char offset of each cluster
             sgs   == graphemes(substring)
             hits  == {g \in 0..(Len(sgs) - 1) : Len(Concat(SubSeq(sgs, 1, g))) = m}
         IN  IF m = -1 \/ hits = {} THEN NoMatch
             ELSE start + (CHOOSE g \in hits : TRUE)

----------------------------------------------------------------------------
(* highlighting::Type *)

T_None == "None"
T_Number == "Number"
T_Match == "Match"
T_String == "String"
T_Character == "Character"
T_Comment == "Comment"
T_MultilineComment == "MultilineComment"
T_PrimaryKeywords == "PrimaryKeywords"
T_SecondaryKeywords == "SecondaryKeywords"

\* Option<String>::None / Some(s) of the search word
NoWord == [some |-> FALSE, s |-> <<>>]
SomeWord(s) == [some |-> TRUE, s |-> s]

----------------------------------------------------------------------------
(* The classifiers of Row::highlight.  Each takes the cursor `index` into   *)
(* chars and the tags pushed so far, and answers                           *)
(*   [hit, index, hl, out]: hit = the bool it returns, out = "ok", or      *)
(*   "panic" / "hang" when the call does not return.                       *)

Closer == <<"*", "/">>

\* chars.get(i): the char, or NoChar for None
NoChar == ""
Get(chars, i) == IF i >= 0 /\ i < Len(chars) THEN chars[i + 1] ELSE NoChar

\* n pushes of one tag
Push(hl, tag, n) == hl \o [k \in 1..n |-> tag]

Miss(index, hl) == [hit |-> FALSE, index |-> index, hl |-> hl, out |-> "ok"]
Hit(index, hl) == [hit |-> TRUE, index |-> index, hl |-> hl, out |-> "ok"]
Stop(index, hl, how) == [hit |-> FALSE, index |-> index, hl |-> hl, out |-> how]

\* Row::highlight_multiline_comment: self.string[*index + 2..] slices at a BYTE
\* offset computed from a char index
highlight_multiline_comment(index, hl, o, chars) ==
    IF o.multiline_comments /\ Get(chars, index) = "/" /\ Get(chars, index + 1) = "*"
    THEN LET k == CharAtByte(chars, index + 2)
         IN  IF k = -1 THEN Stop(index, hl, "panic")
             ELSE LET rest == From(chars, k)
                      p == StrFind(rest, Closer)
                      closing_index == IF p # -1
                                       THEN index + ByteLen(SubSeq(rest, 1, p)) + 4
                                       ELSE Len(chars)
                      n == SatSub(closing_index, index)
                  IN  Hit(index + n, Push(hl, T_MultilineComment, n))
    ELSE Miss(index, hl)

\* Row::highlight_char
highlight_char(index, hl, o, chars) ==
    IF o.characters /\ Get(chars, index) = "'" /\ Get(chars, index + 1) # NoChar
    THEN LET closing_index == IF Get(chars, index + 1) = "\\" THEN index + 3 ELSE index + 2
             n == SatSub(closing_index, index) + 1
         IN  IF Get(chars, closing_index) = "'"
             THEN Hit(index + n, Push(hl, T_Character, n))
             ELSE Miss(index, hl)
    ELSE Miss(index, hl)

\* Row::highlight_comment
highlight_comment(index, hl, o, chars) ==
    IF o.comments /\ Get(chars, index) = "/" /\ index < Len(chars)
       /\ Get(chars, index + 1) = "/"
    THEN Hit(Len(chars), Push(hl, T_Comment, Len(chars) - index))
    ELSE Miss(index, hl)

\* Row::highlight_str: substring.len() pushes, a BYTE count
highlight_str(index, hl, substring, chars, hl_type) ==
    IF substring = <<>> THEN Miss(index, hl)
    ELSE IF \A k \in 1..Len(substring) : Get(chars, index + k - 1) = substring[k]
         THEN Hit(index + ByteLen(substring), Push(hl, hl_type, ByteLen(substring)))
         ELSE Miss(index, hl)

\* a keyword test that does not look at the char after the word
KeywordFits_NoTrailingCheck(index, word, chars) ==
    highlight_str(index, <<>>, word, chars, T_None).hit

\* the test of the loop body of Row::highlight_keywords on one word
KeywordFits(index, word, chars) ==
    /\ (index < SatSub(Len(chars), ByteLen(word)))
           => is_sep(chars[index + ByteLen(word) + 1])
    /\ highlight_str(index, <<>>, word, chars, T_None).hit

\* Row::highlight_keywords: keywords is the configured list, tried in order
highlight_keywords(index, hl, chars, keywords, hl_type) ==
    IF index > 0 /\ ~is_sep(chars[index])
    THEN Miss(index, hl)
    ELSE LET fits == {k \in 1..Len(keywords) : KeywordFits(index, keywords[k], chars)}
         IN  IF fits = {} THEN Miss(index, hl)
             ELSE highlight_str(index, hl,
                                keywords[CHOOSE k \in fits : \A j \in fits : k <= j],
                                chars, hl_type)

\* Row::highlight_primary_keywords
highlight_primary_keywords(index, hl, o, chars) ==
    highlight_keywords(index, hl, chars, o.primary_keywords, T_PrimaryKeywords)

\* Row::highlight_secondary_keywords
highlight_secondary_keywords(index, hl, o, chars) ==
    highlight_keywords(index, hl, chars, o.secondary_keywords, T_SecondaryKeywords)

\* Row::highlight_string: the loop leaves at the closing quote or at the end of
\* the row, and one more tag is pushed after it in both cases
highlight_string(index, hl, o, chars) ==
    IF o.strings /\ Get(chars, index) = "\""
    THEN LET ends == {j \in (index + 1)..Len(chars) : Get(chars, j) \in {"\"", NoChar}}
             j == CHOOSE e \in ends : \A f \in ends : e <= f
         IN  Hit(j + 1, Push(hl, T_String, (j - index) + 1))
    ELSE Miss(index, hl)

\* Row::highlight_numbers: the loop breaks only on a char that is neither a digit
\* nor '.'; at the end of the row chars.get is None and nothing breaks it
highlight_numbers(index, hl, o, chars) ==
    IF o.numbers /\ is_ascii_digit(Get(chars, index))
    THEN IF index > 0 /\ ~is_sep(chars[index])
         THEN Miss(index, hl)
         ELSE LET ends == {j \in (index + 1)..(Len(chars) - 1) :
                              Get(chars, j) # "." /\ ~is_ascii_digit(Get(chars, j))}
              IN  IF ends = {} THEN Stop(index, hl, "hang")
                  ELSE LET j == CHOOSE e \in ends : \A f \in ends : e <= f
                       IN  Hit(j, Push(hl, T_Number, j - index))
    ELSE Miss(index, hl)

\* the classifiers tried after the multiline comment, in the order of the || chain
LowerClassifiers(index, hl, o, chars) ==
    LET c1 == highlight_char(index, hl, o, chars)
        c2 == highlight_comment(index, hl, o, chars)
        c3 == highlight_primary_keywords(index, hl, o, chars)
        c4 == highlight_secondary_keywords(index, hl, o, chars)
        c5 == highlight_string(index, hl, o, chars)
        c6 == highlight_numbers(index, hl, o, chars)
    IN  IF c1.hit THEN c1 ELSE IF c2.hit THEN c2 ELSE IF c3.hit THEN c3
        ELSE IF c4.hit THEN c4 ELSE IF c5.hit THEN c5 ELSE c6

RECURSIVE HighlightLoop(_, _, _, _, _)
\* the `while let Some(c) = chars.get(index)` loop of Row::highlight:
\* [hl, in_multi_comment, out]
HighlightLoop(index, hl, in_multi_comment, o, chars) ==
    IF index >= Len(chars)
    THEN [hl |-> hl, in_multi_comment |-> in_multi_comment, out |-> "ok"]
    ELSE LET m == highlight_multiline_comment(index, hl, o, chars)
         IN  IF m.out # "ok"
             THEN [hl |-> hl, in_multi_comment |-> in_multi_comment, out |-> m.out]
             ELSE IF m.hit
             THEN IF m.index = index
                  THEN [hl |-> hl, in_multi_comment |-> TRUE, out |-> "hang"]
                  ELSE HighlightLoop(m.index, m.hl, TRUE, o, chars)
             ELSE LET c == LowerClassifiers(index, hl, o, chars)
                  IN  IF c.out # "ok"
                      THEN [hl |-> hl, in_multi_comment |-> FALSE, out |-> c.out]
                      ELSE IF c.hit
                      THEN HighlightLoop(c.index, c.hl, FALSE, o, chars)
                      ELSE HighlightLoop(index + 1, Append(hl, T_None), FALSE, o, chars)

RECURSIVE MatchLoop(_, _, _, _)
\* the `while let Some(search_match) = self.find(..)` loop of Row::highlight_match:
\* [hl, out]; self.highlighting[i] panics when i is out of bounds
MatchLoop(r, hl, w, index) ==
    LET search_match == Row_find(r, w, index, Forward)
    IN  IF search_match = NoMatch THEN [hl |-> hl, out |-> "ok"]
        ELSE LET next_index == search_match + GraphemeCount(w)
                 range == {i \in (index + search_match)..(next_index - 1) : TRUE}
             IN  IF \E i \in range : i >= Len(hl)
                 THEN [hl |-> hl, out |-> "panic"]
                 ELSE MatchLoop(r, [i \in 1..Len(hl) |->
                                       IF (i - 1) \in range THEN T_Match ELSE hl[i]],
                                w, next_index)

\* Row::highlight_match
highlight_match(r, hl, word) ==
    IF word.some /\ word.s # <<>> THEN MatchLoop(r, hl, word.s, 0)
    ELSE [hl |-> hl, out |-> "ok"]

\* &self.string[self.string.len().saturating_sub(2)..] == "*/": "yes", "no", or
\* "panic" when the byte offset is inside a char
EndsWithCloser(string) ==
    LET k == CharAtByte(string, SatSub(ByteLen(string), 2))
    IN  IF k = -1 THEN "panic" ELSE IF From(string, k) = Closer THEN "yes" ELSE "no"

Returned(r, ret) == [row |-> r, ret |-> ret, out |-> "ok"]
NotReturned(r, how) == [row |-> r, ret |-> FALSE, out |-> how]

\* the part of Row::highlight after the early return (lines 431-470)
FullPass(r, o, word, start_with_comment) ==
    LET chars == r.string
        p == StrFind(chars, Closer)
        closing_index == IF p # -1 THEN ByteLen(SubSeq(chars, 1, p)) + 2 ELSE Len(chars)
        hl0 == IF start_with_comment THEN Push(<<>>, T_MultilineComment, closing_index)
               ELSE <<>>
        index0 == IF start_with_comment THEN closing_index ELSE 0
        loop == HighlightLoop(index0, hl0, start_with_comment, o, chars)
        mt == highlight_match(r, loop.hl, word)
        ends == EndsWithCloser(chars)
    IN  IF loop.out # "ok" THEN NotReturned(r, loop.out)
        ELSE IF mt.out # "ok" THEN NotReturned(r, mt.out)
        ELSE IF loop.in_multi_comment /\ ends = "panic" THEN NotReturned(r, "panic")
        ELSE IF loop.in_multi_comment /\ ends = "no"
        THEN Returned([r EXCEPT !.highlighting = mt.hl], TRUE)
        ELSE Returned([r EXCEPT !.highlighting = mt.hl, !.is_highlighted = TRUE], FALSE)

\* the early return of Row::highlight (lines 419-429)
FastPath(r) ==
    IF r.highlighting # <<>> /\ r.highlighting[Len(r.highlighting)] = T_MultilineComment
       /\ ByteLen(r.string) > 1
    THEN LET ends == EndsWithCloser(r.string)
         IN  IF ends = "panic" THEN NotReturned(r, "panic")
             ELSE Returned(r, ends = "yes")
    ELSE Returned(r, FALSE)

\* Row::highlight(opts, word, start_with_comment): [row, ret, out]
Row_highlight(r, o, word, start_with_comment) ==
    IF r.is_highlighted /\ ~word.some
    THEN FastPath(r)
    ELSE FullPass(r, o, word, start_with_comment)

----------------------------------------------------------------------------
(* Document.  Each operation answers the new rows and dirty flag and `out`:  *)
(* "ok" when the call returns, "panic" / "hang" when it does not.           *)

Pos(x, y) == [x |-> x, y |-> y]

DocRes(rs, d, out) == [rows |-> rs, dirty |-> d, out |-> out]

\* an insert that puts the element after the last one
VecInsert_AtEnd(rs, index, r) == Append(rs, r)

\* Vec::insert(index, element), for index <= len
VecInsert(rs, index, r) == SubSeq(rs, 1, index) \o <<r>> \o SubSeq(rs, index + 1, Len(rs))

\* Vec::remove(index), for index < len
VecRemove(rs, index) == SubSeq(rs, 1, index) \o SubSeq(rs, index + 2, Len(rs))

\* an unhighlight that starts one row below `start`
unhighlight_rows_BelowStart(rs, start) ==
    [k \in 1..Len(rs) |->
        IF k - 1 > start THEN [rs[k] EXCEPT !.is_highlighted = FALSE] ELSE rs[k]]

\* Document::unhighlight_rows(start): skip(start.saturating_sub(1))
unhighlight_rows(rs, start) ==
    [k \in 1..Len(rs) |->
        IF k - 1 >= SatSub(start, 1) THEN [rs[k] EXCEPT !.is_highlighted = FALSE] ELSE rs[k]]

\* Document::insert_newline_at_end(y_at): [rows, out]; Vec::insert panics when
\* its index exceeds the length
insert_newline_at_end(rs, y_at) ==
    IF y_at > Len(rs) THEN [rows |-> rs, out |-> "ok"]
    ELSE IF y_at + 1 > Len(rs) THEN [rows |-> rs, out |-> "panic"]
    ELSE [rows |-> VecInsert(rs, y_at + 1, Row_default), out |-> "ok"]

\* insert_newline that adds an empty row and leaves row at.y whole
insert_newline_NoSplit(rs, at) ==
    IF at.y > Len(rs) THEN rs
    ELSE IF at.y = Len(rs) THEN Append(rs, Row_default)
    ELSE VecInsert(rs, at.y + 1, Row_default)

\* Document::insert_newline(at)
insert_newline(rs, at) ==
    IF at.y > Len(rs) THEN rs
    ELSE IF at.y = Len(rs) THEN Append(rs, Row_default)
    ELSE LET sp == Row_split(rs[at.y + 1], at.x)
         IN  VecInsert([rs EXCEPT ![at.y + 1] = sp[1]], at.y + 1, sp[2])

\* insert that sets the dirty flag before it looks at the position
Document_insert_MarksDirty(rs, d, at, c) ==
    IF at.y > Len(rs) THEN DocRes(rs, TRUE, "ok")
    ELSE IF c = NL
    THEN IF at.y >= Len(rs) THEN DocRes(rs, TRUE, "panic")
         ELSE IF at.x = rs[at.y + 1].len
         THEN LET r == insert_newline_at_end(rs, at.y)
              IN  DocRes(unhighlight_rows(r.rows, at.y), TRUE, r.out)
         ELSE DocRes(unhighlight_rows(insert_newline(rs, at), at.y), TRUE, "ok")
    ELSE IF at.y = Len(rs)
    THEN DocRes(unhighlight_rows(Append(rs, Row_insert(Row_default, 0, c)), at.y),
                TRUE, "ok")
    ELSE DocRes(unhighlight_rows([rs EXCEPT ![at.y + 1] = Row_insert(@, at.x, c)], at.y),
                TRUE, "ok")

\* Document::insert(at, c): self.rows[at.y] panics when at.y = rows.len()
Document_insert(rs, d, at, c) ==
    IF at.y > Len(rs) THEN DocRes(rs, d, "ok")
    ELSE IF c = NL
    THEN IF at.y >= Len(rs) THEN DocRes(rs, TRUE, "panic")
         ELSE IF at.x = rs[at.y + 1].len
         THEN LET r == insert_newline_at_end(rs, at.y)
              IN  DocRes(unhighlight_rows(r.rows, at.y), TRUE, r.out)
         ELSE DocRes(unhighlight_rows(insert_newline(rs, at), at.y), TRUE, "ok")
    ELSE IF at.y = Len(rs)
    THEN DocRes(unhighlight_rows(Append(rs, Row_insert(Row_default, 0, c)), at.y),
                TRUE, "ok")
    ELSE DocRes(unhighlight_rows([rs EXCEPT ![at.y + 1] = Row_insert(@, at.x, c)], at.y),
                TRUE, "ok")

\* delete that leaves the dirty flag as it finds it
Document_delete_KeepsFlag(rs, d, at) ==
    LET len == Len(rs)
    IN  IF at.y >= len THEN DocRes(rs, d, "ok")
        ELSE IF at.x = rs[at.y + 1].len /\ at.y + 1 < len
        THEN LET next_row == rs[at.y + 2]
                 removed == VecRemove(rs, at.y + 1)
             IN  DocRes(unhighlight_rows(
                            [removed EXCEPT ![at.y + 1] = Row_append(@, next_row)], at.y),
                        d, "ok")
        ELSE DocRes(unhighlight_rows([rs EXCEPT ![at.y + 1] = Row_delete(@, at.x)], at.y),
                    d, "ok")

\* Document::delete(at)
Document_delete(rs, d, at) ==
    LET len == Len(rs)
    IN  IF at.y >= len THEN DocRes(rs, d, "ok")
        ELSE IF at.x = rs[at.y + 1].len /\ at.y + 1 < len
        THEN LET next_row == rs[at.y + 2]
                 removed == VecRemove(rs, at.y + 1)
             IN  DocRes(unhighlight_rows(
                            [removed EXCEPT ![at.y + 1] = Row_append(@, next_row)], at.y),
                        TRUE, "ok")
        ELSE DocRes(unhighlight_rows([rs EXCEPT ![at.y + 1] = Row_delete(@, at.x)], at.y),
                    TRUE, "ok")

\* Option<Pos>::None of Document::find
NoPos == Pos(-1, -1)

RECURSIVE FindLoop(_, _, _, _, _)
\* the `for _ in start..end` loop of Document::find with `left` iterations to go
FindLoop(rs, query, pos, direction, left) ==
    IF left <= 0 THEN NoPos
    ELSE IF pos.y >= Len(rs) THEN NoPos
    ELSE LET x == Row_find(rs[pos.y + 1], query, pos.x, direction)
         IN  IF x # NoMatch THEN Pos(x, pos.y)
             ELSE IF direction = Forward
             THEN FindLoop(rs, query, Pos(0, pos.y + 1), direction, left - 1)
             ELSE LET y == SatSub(pos.y, 1)
                  IN  FindLoop(rs, query, Pos(rs[y + 1].len, y), direction, left - 1)

\* Document::find(query, at, direction): the position, or NoPos
Document_find(rs, query, at, direction) ==
    IF at.y > Len(rs) THEN NoPos
    ELSE LET start == IF direction = Forward THEN at.y ELSE 0
             end   == IF direction = Forward THEN Len(rs) ELSE at.y + 1
         IN  FindLoop(rs, query, at, direction, end - start)

\* Option<usize>::None of the `until` of Document::highlight
NoUntil == -1

RECURSIVE HighlightRows(_, _, _, _, _, _)
\* the `for row in &mut self.rows[..until]` loop of Document::highlight, at row
\* k (1-based) with the comment state returned by the row before: [rows, out].
\* The row and what row.highlight makes of it are bound once, as values.
HighlightRows(rs, o, word, until, k, start_with_comment) ==
    IF k > until THEN [rows |-> rs, out |-> "ok"]
    ELSE CHOOSE result \in
             { IF res.out # "ok" THEN [rows |-> rs, out |-> res.out]
               ELSE HighlightRows([rs EXCEPT ![k] = res.row], o, word, until, k + 1, res.ret)
               : res \in {Row_highlight(r, o, word, start_with_comment) : r \in {rs[k]}} } :
             TRUE

\* a highlight that walks every row whatever `until` is
Document_highlight_AllRows(rs, o, word, until) ==
    HighlightRows(rs, o, word, Len(rs), 1, FALSE)

\* Document::highlight(word, until)
Document_highlight(rs, o, word, until) ==
    LET bound == IF until # NoUntil
                 THEN IF until + 1 < Len(rs) THEN until + 1 ELSE Len(rs)
                 ELSE Len(rs)
    IN  HighlightRows(rs, o, word, bound, 1, FALSE)

----------------------------------------------------------------------------
(* Saving and opening: the file holds bytes; save writes the UTF-8 bytes of *)
(* every row followed by a newline byte, open decodes them and splits them *)
(* into lines                                                              *)

NoName == [some |-> FALSE, s |-> ""]
SomeName(s) == [some |-> TRUE, s |-> s]

NoFile == <<-1>>

\* the UTF-8 encoding of a char (the chars the documents of SpecSave hold)
Utf8Bytes(c) ==
    CASE c = "a" -> <<97>>
      [] c = "b" -> <<98>>
      [] c = NL -> <<10>>
      [] c = CR -> <<13>>
      [] c = CombiningAcute -> <<204, 129>>
      [] c = Euro -> <<226, 130, 172>>

FileChars == {"a", "b", NL, CR, CombiningAcute, Euro}

RECURSIVE Encode(_)
\* String::as_bytes
Encode(s) == IF s = <<>> THEN <<>> ELSE Utf8Bytes(s[1]) \o Encode(Tail(s))

\* what read_to_string gives for bytes that are not UTF-8
Invalid == <<"invalid">>

RECURSIVE Decode(_)
\* the String read_to_string decodes from the bytes, Invalid when they are not
\* UTF-8: the leading byte tells the length of each char
Decode(bytes) ==
    IF bytes = <<>> THEN <<>>
    ELSE LET b == bytes[1]
             n == IF b < 128 THEN 1 ELSE IF b < 224 THEN 2 ELSE 3
         IN  IF n > Len(bytes) THEN Invalid
             ELSE LET cs == {c \in FileChars : Utf8Bytes(c) = SubSeq(bytes, 1, n)}
                      rest == Decode(SubSeq(bytes, n + 1, Len(bytes)))
                  IN  IF cs = {} \/ rest = Invalid THEN Invalid
                      ELSE <<CHOOSE c \in cs : TRUE>> \o rest

RECURSIVE Lines(_)
\* str::lines(): the pieces that end at each newline, without the newline and
\* without a carriage return right before it; a last piece with no newline is
\* a line as it is
Lines(s) ==
    IF s = <<>> THEN <<>>
    ELSE LET nls == {k \in 1..Len(s) : s[k] = NL}
         IN  IF nls = {} THEN <<s>>
             ELSE LET k == CHOOSE i \in nls : \A j \in nls : i <= j
                      line == SubSeq(s, 1, k - 1)
                      stripped == IF line # <<>> /\ line[Len(line)] = CR
                                  THEN SubSeq(line, 1, Len(line) - 1) ELSE line
                  IN  <<stripped>> \o Lines(SubSeq(s, k + 1, Len(s)))

RECURSIVE FileBytes(_)
\* the bytes the loop of Document::save writes: each row, then a newline
FileBytes(rs) ==
    IF rs = <<>> THEN <<>>
    ELSE Encode(rs[1].string) \o Utf8Bytes(NL) \o FileBytes(Tail(rs))

\* the fate of the I/O of one save: kind = "create" when File::create fails,
\* kind = "write" when a write fails after k bytes reached the file, kind =
\* "none" when nothing fails
Io(kind, k) == [kind |-> kind, k |-> k]

\* the fates the I/O of a save of these rows can have
IoFates(rs) ==
    {Io("create", 0), Io("none", 0)}
        \cup {Io("write", k) : k \in 0..(Len(FileBytes(rs)) - 1)}

\* save that clears the dirty flag before it writes
Document_save_ClearsFirst(rs, d, name, f, io) ==
    IF ~name.some THEN [dirty |-> d, file |-> f, result |-> "Ok"]
    ELSE IF io.kind = "create" THEN [dirty |-> d, file |-> f, result |-> "Err"]
    ELSE IF io.kind = "write"
    THEN [dirty |-> FALSE, file |-> SubSeq(FileBytes(rs), 1, io.k), result |-> "Err"]
    ELSE [dirty |-> FALSE, file |-> FileBytes(rs), result |-> "Ok"]

\* Document::save(): [dirty, file, result].  The filetype it derives from the
\* filename is the one the Document has: the name does not change once set.
Document_save(rs, d, name, f, io) ==
    IF ~name.some THEN [dirty |-> d, file |-> f, result |-> "Ok"]
    ELSE IF io.kind = "create" THEN [dirty |-> d, file |-> f, result |-> "Err"]
    ELSE IF io.kind = "write"
    THEN [dirty |-> d, file |-> SubSeq(FileBytes(rs), 1, io.k), result |-> "Err"]
    ELSE [dirty |-> FALSE, file |-> FileBytes(rs), result |-> "Ok"]

\* Editor::save(): asks for a name when the Document has none (new_name is
\* what the prompt returns), gives up when the prompt returns none, and saves
\* otherwise: [dirty, file, filename, io, result], result = "Aborted" when it
\* gave up and io = "" when it did no I/O
Editor_save(rs, d, name, f, new_name, io) ==
    LET n   == IF name.some THEN name ELSE new_name
        res == Document_save(rs, d, n, f, io)
    IN  IF ~n.some
        THEN [dirty |-> d, file |-> f, filename |-> name, io |-> "", result |-> "Aborted"]
        ELSE [dirty |-> res.dirty, file |-> res.file, filename |-> n,
              io |-> io.kind, result |-> res.result]

\* Editor::quit(force): the quit flag after the call
Editor_quit(d, q, force) == IF d /\ ~force THEN q ELSE TRUE

----------------------------------------------------------------------------
(* HighlightingOptions (src/filetype.rs is not part of the sources: the     *)
(* record follows the spec's data model, section 3)                        *)

\* FileType::default(): nothing enabled, no keywords
OptsNone ==
    [numbers |-> FALSE, strings |-> FALSE, characters |-> FALSE, comments |-> FALSE,
     multiline_comments |-> FALSE, primary_keywords |-> <<>>, secondary_keywords |-> <<>>]

\* a file type with every class enabled, primary keyword "if", secondary keyword "fi"
OptsAll ==
    [numbers |-> TRUE, strings |-> TRUE, characters |-> TRUE, comments |-> TRUE,
     multiline_comments |-> TRUE, primary_keywords |-> << <<"i", "f">> >>,
     secondary_keywords |-> << <<"f", "i">> >>]

OptionSets == {OptsNone, OptsAll}

----------------------------------------------------------------------------
(* Inputs *)

SeqsUpTo(S, n) == UNION {[1..k -> S] : k \in 0..n}

\* the rows of the test scenarios of the spec, section 8
ExampleRows ==
    { <<"x", "1">>,
      <<"x", " ", "=", " ", "1">>,
      <<"x", " ", "=", " ", "1", ";">>,
      <<"1", ".", "5", " ">>,
      <<"i", "f", "C", "o", "n", "d", "i", "t", "i", "o", "n">>,
      <<"i", "f", " ", "(", "x", ")">>,
      <<"/", "*", " ", "s", "t", "a", "r", "t">>,
      <<"m", "i", "d", "d", "l", "e">>,
      <<"e", "n", "d", " ", "*", "/", " ", "c", "o", "d", "e">>,
      <<"'", "a", "'", " ">>,
      <<"'", "\\", "n", "'">>,
      <<"/", "/", " ", "1">>,
      <<"/", "*", Euro>>,
      <<Euro, Euro, Euro, "/", "*">> }

\* the chars of the exhaustively enumerated rows of the highlighter
HlChars == {"/", "*", "\"", "1", "i", "f", CombiningAcute}

HlTexts == SeqsUpTo(HlChars, MaxRowLen) \cup ExampleRows

\* the search words Row::highlight is called with
Words == {NoWord, SomeWord(<<"i", "f">>), SomeWord(<<"*">>)}

\* the chars of the exhaustively enumerated rows of the Row edit operations
EditChars == {"a", "b", CombiningAcute}

EditTexts == SeqsUpTo(EditChars, MaxRowLen)

Queries == {<<>>, <<"a">>, <<"a", "b">>, <<CombiningAcute>>}

----------------------------------------------------------------------------
(* The last operation, as a record of one shape *)

\* `after` is kept by the calls that undo an earlier one (Row::delete,
\* Row::append): the call they follow, <<name, at>>
OpRec(name, at, c, word, swc, retb, reti, other, after) ==
    [name |-> name, at |-> at, c |-> c, word |-> word, swc |-> swc,
     retb |-> retb, reti |-> reti, other |-> other, after |-> after]

NoOp == OpRec("none", 0, NoChar, NoWord, FALSE, FALSE, 0, Row_default,
              <<"none", 0>>)

\* the last call on the Document
\* `searched` tells whether a highlight call so far had a search word
\* `after` is the position of the newline insert a delete directly follows
DocOp(name, at, c, word, dir, until, found, searched, after) ==
    [name |-> name, at |-> at, c |-> c, word |-> word, dir |-> dir,
     until |-> until, found |-> found, searched |-> searched, after |-> after]

DocNoOp ==
    DocOp("none", NoPos, NoChar, NoWord, Forward, NoUntil, NoPos, FALSE, NoPos)

\* a Row operation that keeps no `after`
RowOp(name, at, c, word, swc, retb, reti, other) ==
    OpRec(name, at, c, word, swc, retb, reti, other, <<"none", 0>>)

----------------------------------------------------------------------------
(* Editor: the handlers of the keys.  Each takes and answers the part of    *)
(* the Editor the keys act on, [rows, dirty, cursor_pos, mode, out]: out is *)
(* "ok", or "panic" once a call did not return, and nothing is done after   *)
(* that.  The offset of the screen and the status message are left out: no  *)
(* handler reads them.  A handler binds the Editor it is given, so that it   *)
(* is worked out once however often the handler looks at it                 *)

\* the element of a set of one
Only(S) == CHOOSE x \in S : TRUE

\* enum Mode
Normal == "Normal"
Visual == "Visual"
Insert == "Insert"

\* const TABSIZE
TABSIZE == 4
TAB == "\t"
SPACE == " "

Ed(rs, d, cp, m, out) ==
    [rows |-> rs, dirty |-> d, cursor_pos |-> cp, mode |-> m, out |-> out]

\* termion::event::Key: Char(c), or a key with no char
Key(kind) == [kind |-> kind, c |-> NoChar]
Char(c) == [kind |-> "Char", c |-> c]
NoKey == Key("")

\* row.len() of the row at y, 0 when document.row(y) is None
WidthAt(rs, y) == IF y < Len(rs) THEN rs[y + 1].len ELSE 0

\* Editor::move_cursor(key): the new cursor_pos
move_cursor(rs, cp, kind) ==
    LET height == Len(rs)
        width  == WidthAt(rs, cp.y)
        moved  == CASE kind = "Up"    -> Pos(cp.x, SatSub(cp.y, 1))
                    [] kind = "Down"  -> IF cp.y < height THEN Pos(cp.x, cp.y + 1) ELSE cp
                    [] kind = "Left"  -> IF cp.x > 0 THEN Pos(cp.x - 1, cp.y)
                                         ELSE IF cp.y > 0
                                         THEN Pos(WidthAt(rs, cp.y - 1), cp.y - 1)
                                         ELSE cp
                    [] kind = "Right" -> IF cp.x < width THEN Pos(cp.x + 1, cp.y)
                                         ELSE IF cp.y < height THEN Pos(0, cp.y + 1)
                                         ELSE cp
                    [] OTHER          -> cp
    IN  Pos(Min(moved.x, WidthAt(rs, moved.y)), moved.y)

\* self.move_cursor(key)
Ed_move_cursor(ed, kind) ==
    Only({
    IF e.out # "ok" THEN e
    ELSE [e EXCEPT !.cursor_pos = move_cursor(e.rows, e.cursor_pos, kind)]
    : e \in {ed}})

\* self.document.insert(at, c)
Ed_insert(ed, at, c) ==
    Only({
    IF e.out # "ok" THEN e
    ELSE LET res == Document_insert(e.rows, e.dirty, at, c)
         IN  [e EXCEPT !.rows = res.rows, !.dirty = res.dirty, !.out = res.out]
    : e \in {ed}})

\* self.document.delete(&self.cursor_pos)
Ed_delete(ed) ==
    Only({
    IF e.out # "ok" THEN e
    ELSE LET res == Document_delete(e.rows, e.dirty, e.cursor_pos)
         IN  [e EXCEPT !.rows = res.rows, !.dirty = res.dirty, !.out = res.out]
    : e \in {ed}})

\* normal_move_cursor('h')
normal_move_cursor_h(ed) ==
    Only({
    IF e.out = "ok" /\ e.cursor_pos.x # 0 THEN Ed_move_cursor(e, "Left") ELSE e
    : e \in {ed}})

\* Editor::fix_if_cursor_at_newline()
fix_if_cursor_at_newline(ed) ==
    Only({
    IF /\ e.out = "ok"
       /\ e.cursor_pos.y < Len(e.rows)
       /\ e.cursor_pos.x = e.rows[e.cursor_pos.y + 1].len
    THEN normal_move_cursor_h(e) ELSE e
    : e \in {ed}})

\* Editor::normal_move_cursor(c)
normal_move_cursor(ed, c) ==
    Only({
    CASE c = "h" -> normal_move_cursor_h(e)
      [] c = "j" -> fix_if_cursor_at_newline(Ed_move_cursor(e, "Down"))
      [] c = "k" -> fix_if_cursor_at_newline(Ed_move_cursor(e, "Up"))
      [] c = "l" -> IF /\ e.cursor_pos.y < Len(e.rows)
                       /\ e.cursor_pos.x < SatSub(e.rows[e.cursor_pos.y + 1].len, 1)
                    THEN Ed_move_cursor(e, "Right") ELSE e
      [] OTHER   -> e
    : e \in {ed}})

\* Editor::change_mode(mode)
change_mode(ed, m) ==
    Only({
    IF e.out # "ok" THEN e
    ELSE IF m = Normal THEN normal_move_cursor([e EXCEPT !.mode = m], "h")
    ELSE [e EXCEPT !.mode = m]
    : e \in {ed}})

\* Editor::move_cursor_thisline_end()
move_cursor_thisline_end(ed) ==
    Only({
    IF e.out = "ok" /\ e.cursor_pos.y < Len(e.rows)
    THEN [e EXCEPT !.cursor_pos = Pos(e.rows[e.cursor_pos.y + 1].len, e.cursor_pos.y)]
    ELSE e
    : e \in {ed}})

\* Editor::move_cursor_nextline_front()
move_cursor_nextline_front(e) == Ed_move_cursor(move_cursor_thisline_end(e), "Right")

\* Editor::move_cursor_thisline_front()
move_cursor_thisline_front(e) == Ed_move_cursor(move_cursor_nextline_front(e), "Up")

\* Row::index_first_char(): the index of the first char that is not a space,
\* 0 when there is none
index_first_char(r) ==
    LET others == {k \in 1..Len(r.string) : r.string[k] # SPACE}
    IN  IF others = {} THEN 0 ELSE (CHOOSE k \in others : \A j \in others : k <= j) - 1

\* Editor::move_cursor_thisline_first_char()
move_cursor_thisline_first_char(ed) ==
    Only({
    IF e.out = "ok" /\ e.cursor_pos.y < Len(e.rows)
    THEN [e EXCEPT !.cursor_pos =
              Pos(index_first_char(e.rows[e.cursor_pos.y + 1]), e.cursor_pos.y)]
    ELSE e
    : e \in {ed}})

\* Editor::normal_insert_newline(): <<the Editor afterwards, the bool returned>>
normal_insert_newline(ed) ==
    Only({
    IF e.out = "ok" /\ e.cursor_pos.y < Len(e.rows)
    THEN <<Ed_insert(e, Pos(e.rows[e.cursor_pos.y + 1].len, e.cursor_pos.y), NL), TRUE>>
    ELSE <<e, FALSE>>
    : e \in {ed}})

RECURSIVE insert_tab(_, _)
\* the `for _ in 0..TABSIZE` loop of the '\t' arm with n iterations to go
insert_tab(ed, n) ==
    Only({
    IF n = 0 THEN e
    ELSE insert_tab(Ed_move_cursor(Ed_insert(e, e.cursor_pos, SPACE), "Right"), n - 1)
    : e \in {ed}})

\* Editor::insert_process_keypress() on the key read
insert_process_keypress(ed, key) ==
    Only({
    CASE key.kind = "Char" ->
             IF key.c = TAB THEN insert_tab(e, TABSIZE)
             ELSE Ed_move_cursor(Ed_insert(e, e.cursor_pos, key.c), "Right")
      [] key.kind = "Delete" -> Ed_delete(e)
      [] key.kind = "Backspace" ->
             IF e.cursor_pos.x > 0 \/ e.cursor_pos.y > 0
             THEN Ed_delete(Ed_move_cursor(e, "Left")) ELSE e
      [] key.kind \in {"Up", "Down", "Left", "Right"} -> Ed_move_cursor(e, key.kind)
      [] key.kind = "Esc" -> change_mode(e, Normal)
      [] OTHER -> e
    : e \in {ed}})

\* the 'o' arm of _normal_process_keypress
normal_key_o(ed) ==
    Only({
    LET res == normal_insert_newline(e)
    IN  IF res[2] THEN change_mode(move_cursor_nextline_front(res[1]), Insert) ELSE e
    : e \in {ed}})

\* Editor::_normal_process_keypress(pressed_key), but for ':' and '/', which
\* read more keys
normal_process_keypress(ed, key) ==
    Only({
    CASE key.kind = "Char" ->
             CASE key.c = "i" -> change_mode(e, Insert)
               [] key.c = "a" -> change_mode(Ed_move_cursor(e, "Right"), Insert)
               [] key.c = "A" -> change_mode(move_cursor_thisline_end(e), Insert)
               [] key.c = "I" -> change_mode(move_cursor_thisline_front(e), Insert)
               [] key.c = "v" -> change_mode(e, Visual)
               [] key.c \in {"h", "j", "k", "l"} -> normal_move_cursor(e, key.c)
               [] key.c = "x" -> Ed_delete(e)
               [] key.c = "s" -> change_mode(Ed_delete(e), Insert)
               [] key.c = "o" -> normal_key_o(e)
               [] key.c = "O" -> normal_key_o(Ed_move_cursor(e, "Up"))
               [] key.c = "^" -> move_cursor_thisline_first_char(e)
               [] OTHER -> e
      [] key.kind = "Backspace" ->
             IF e.cursor_pos.x = 0
             THEN Ed_move_cursor(Ed_move_cursor(e, "Left"), "Left")
             ELSE Ed_move_cursor(e, "Left")
      [] OTHER -> e
    : e \in {ed}})

\* the callback of Editor::search() on a key of the prompt, with the query
\* typed so far
search_callback(ed, key, query) ==
    Only({
    LET moved     == key = Char("n")
        direction == IF key = Char("N") THEN Backward ELSE Forward
        e1        == IF moved THEN Ed_move_cursor(e, "Right") ELSE e
        pos       == Document_find(e1.rows, query, e1.cursor_pos, direction)
    IN  IF pos # NoPos THEN [e1 EXCEPT !.cursor_pos = pos]
        ELSE IF moved THEN Ed_move_cursor(e1, "Left")
        ELSE e1
    : e \in {ed}})

RECURSIVE search_prompt(_, _, _)
\* the loop of Editor::prompt() under search(), on the keys typed before the
\* one that ends it: <<the Editor afterwards, the text typed>>.  The text is
\* ASCII: truncate takes off one byte
search_prompt(ed, keys, result) ==
    Only({
    IF keys = <<>> THEN <<e, result>>
    ELSE LET key == keys[1]
             typed == CASE key.kind = "Backspace" -> SubSeq(result, 1, SatSub(Len(result), 1))
                        [] key.kind = "Char" /\ ~IsControl(key.c) -> Append(result, key.c)
                        [] OTHER -> result
         IN  search_prompt(search_callback(e, key, typed), Tail(keys), typed)
    : e \in {ed}})

\* Editor::search(): keys, then Enter (last = "Char") or Esc (last = "Esc")
search(ed, keys, last) ==
    Only({
    LET res == search_prompt(e, keys, <<>>)
    IN  IF last = "Esc" \/ res[2] = <<>>
        THEN [res[1] EXCEPT !.cursor_pos = e.cursor_pos]
        ELSE res[1]
    : e \in {ed}})

----------------------------------------------------------------------------
(* Row-level specification of the highlighter: one Row, built from a text,  *)
(* highlighted again and again with any search word and incoming state     *)

\* the Editor as Editor::default() builds it
EditorIdle == quit = FALSE /\ mode = Normal /\ cursor_pos = Pos(0, 0)

DocIdle ==
    /\ rows = <<>> /\ dirty = FALSE /\ op = DocNoOp /\ filename = NoName /\ file = NoFile
    /\ EditorIdle

InitRowHighlight ==
    /\ \E t \in HlTexts : row = Row_from(t)
    /\ opts \in OptionSets
    /\ outcome = "ok"
    /\ rop = NoOp
    /\ prevString = row.string
    /\ prevLen = row.len
    /\ DocIdle

\* one call row.highlight(&opts, &word, start_with_comment); rop.c tells whether
\* the call took the early return ("fast") or ran the full pass ("full")
RowHighlightCall ==
    \E word \in Words, swc \in BOOLEAN :
        LET res == Row_highlight(row, opts, word, swc)
        IN  /\ outcome = "ok"
            /\ outcome' = res.out
            /\ row' = res.row
            /\ rop' = RowOp("highlight", 0,
                            IF row.is_highlighted /\ ~word.some THEN "fast" ELSE "full",
                            word, swc, res.ret, 0, Row_default)
            /\ prevString' = row.string
            /\ prevLen' = row.len
            /\ UNCHANGED <<docVars, opts, editorVars>>

NextRowHighlight == RowHighlightCall

SpecRowHighlight == InitRowHighlight /\ [][NextRowHighlight]_vars

----------------------------------------------------------------------------
(* Row-level specification of the edit operations: one Row, built from a    *)
(* text, edited by insert / delete / split / append and searched by find   *)

InitRowEdit ==
    /\ \E t \in EditTexts : row = Row_from(t)
    /\ opts = OptsNone
    /\ outcome = "ok"
    /\ rop = NoOp
    /\ prevString = row.string
    /\ prevLen = row.len
    /\ DocIdle

Remember == prevString' = row.string /\ prevLen' = row.len

RowInsertCall ==
    \E at \in 0..(MaxRowLen + 1), c \in EditChars :
        /\ Len(row.string) < MaxRowLen
        /\ row' = Row_insert(row, at, c)
        /\ rop' = RowOp("insert", at, c, NoWord, FALSE, FALSE, 0, Row_default)
        /\ Remember
        /\ UNCHANGED <<docVars, opts, outcome, editorVars>>

RowDeleteCall ==
    \E at \in 0..(MaxRowLen + 1) :
        /\ row' = Row_delete(row, at)
        /\ rop' = OpRec("delete", at, NoChar, NoWord, FALSE, FALSE, 0, Row_default,
                        <<rop.name, rop.at>>)
        /\ Remember
        /\ UNCHANGED <<docVars, opts, outcome, editorVars>>

RowSplitCall ==
    \E at \in 0..(MaxRowLen + 1) :
        /\ row' = Row_split(row, at)[1]
        /\ rop' = RowOp("split", at, NoChar, NoWord, FALSE, FALSE, 0, Row_split(row, at)[2])
        /\ Remember
        /\ UNCHANGED <<docVars, opts, outcome, editorVars>>

\* row.append(&new) with the row a split just returned, or a row built from a text
RowAppendCall ==
    \E new \in {Row_from(t) : t \in EditTexts} \cup {rop.other} :
        /\ Len(row.string) + Len(new.string) <= MaxRowLen
        /\ new.string # <<>> \/ (rop.name = "split" /\ new = rop.other)
        /\ row' = Row_append(row, new)
        /\ rop' = OpRec("append", 0, NoChar, NoWord, FALSE, FALSE, 0, new,
                        <<rop.name, rop.at>>)
        /\ Remember
        /\ UNCHANGED <<docVars, opts, outcome, editorVars>>

RowFindCall ==
    \E q \in Queries, at \in 0..(MaxRowLen + 1), d \in {Forward, Backward} :
        /\ rop' = RowOp("find", at, d, SomeWord(q), FALSE, FALSE,
                        Row_find(row, q, at, d), Row_default)
        /\ Remember
        /\ UNCHANGED <<row, docVars, opts, outcome, editorVars>>

NextRowEdit ==
    \/ RowInsertCall
    \/ RowDeleteCall
    \/ RowSplitCall
    \/ RowAppendCall
    \/ RowFindCall

SpecRowEdit == InitRowEdit /\ [][NextRowEdit]_vars

----------------------------------------------------------------------------
(* A Document as the file gives it *)

\* Document::open: one Row per line of the file; Document::default for no lines
Document_open(lines) == [k \in 1..Len(lines) |-> Row_from(lines[k])]

\* the name of a file of Rust source, and the name of a file of no known type
RustFileName == "f.rs"
FileName == "f"

RowIdle == row = Row_default /\ prevString = <<>> /\ prevLen = 0 /\ rop = NoOp

----------------------------------------------------------------------------
(* Document-level specification of the highlighter: a Document opened from  *)
(* a file and highlighted again and again, with any search word and until  *)

\* rows whose block comment ends in a way the end-of-row test has to tell apart
CommentRows == { <<"/", "*", "/">>, <<"/", "*", Euro>> }

\* the three-line document of the multiline-comment scenario
CommentScenario ==
    << <<"/", "*", " ", "s", "t", "a", "r", "t">>,
       <<"m", "i", "d", "d", "l", "e">>,
       <<"e", "n", "d", " ", "*", "/", " ", "c", "o", "d", "e">> >>

HlDocChars == {"/", "*"}
HlDocTexts == SeqsUpTo(HlDocChars, MaxDocLen) \cup CommentRows
Untils == {NoUntil} \cup 0..MaxRows
DocWords == {NoWord, SomeWord(<<"*">>)}

InitDocHighlight ==
    /\ \/ \E n \in 0..MaxRows : \E ts \in [1..n -> HlDocTexts] : rows = Document_open(ts)
       \/ rows = Document_open(CommentScenario)
    /\ dirty = FALSE
    /\ opts = OptsAll
    /\ outcome = "ok"
    /\ op = DocNoOp
    /\ filename = SomeName(RustFileName)
    /\ file = NoFile
    /\ RowIdle
    /\ EditorIdle

\* one call document.highlight(&word, until)
DocHighlightCall ==
    \E word \in DocWords, until \in Untils :
        LET res == Document_highlight(rows, opts, word, until)
        IN  /\ outcome = "ok"
            /\ rows' = res.rows
            /\ outcome' = res.out
            /\ op' = DocOp("highlight", NoPos, NoChar, word, Forward, until, NoPos,
                           op.searched \/ word.some, NoPos)
            /\ UNCHANGED <<dirty, opts, filename, file, rowVars, editorVars>>

NextDocHighlight == DocHighlightCall

SpecDocHighlight == InitDocHighlight /\ [][NextDocHighlight]_vars

----------------------------------------------------------------------------
(* Document-level specification of the edits: a Document opened from a file *)
(* (or empty), then edited and searched                                    *)

DocChars == {"a", "b"}
DocTexts == SeqsUpTo(DocChars, MaxDocLen)
Positions == {Pos(x, y) : x \in 0..MaxDocLen, y \in 0..MaxRows}
DocQueries == {<<"a">>, <<"b", "a">>}

Init ==
    /\ \E n \in 0..MaxRows : \E ts \in [1..n -> DocTexts] : rows = Document_open(ts)
    /\ dirty = FALSE
    /\ opts = OptsAll
    /\ outcome = "ok"
    /\ op = DocNoOp
    /\ filename = SomeName(RustFileName)
    /\ file = NoFile
    /\ RowIdle
    /\ EditorIdle

\* the document stays within the bounds of the model
InBounds(rs) ==
    /\ Len(rs) <= MaxRows
    /\ \A k \in 1..Len(rs) : Len(rs[k].string) <= MaxDocLen

DocInsert ==
    \E at \in Positions, c \in DocChars \cup {NL} :
        LET res == Document_insert(rows, dirty, at, c)
        IN  /\ outcome = "ok"
            /\ InBounds(res.rows)
            /\ rows' = res.rows /\ dirty' = res.dirty /\ outcome' = res.out
            /\ op' = DocOp("insert", at, c, NoWord, Forward, NoUntil, NoPos, FALSE,
                           NoPos)
            /\ UNCHANGED <<opts, filename, file, rowVars, editorVars>>

DocDelete ==
    \E at \in Positions :
        LET res == Document_delete(rows, dirty, at)
        IN  /\ outcome = "ok"
            /\ InBounds(res.rows)
            /\ rows' = res.rows /\ dirty' = res.dirty /\ outcome' = res.out
            /\ op' = DocOp("delete", at, NoChar, NoWord, Forward, NoUntil, NoPos, FALSE,
                           IF op.name = "insert" /\ op.c = NL THEN op.at ELSE NoPos)
            /\ UNCHANGED <<opts, filename, file, rowVars, editorVars>>

DocFind ==
    \E q \in DocQueries, at \in Positions, d \in {Forward, Backward} :
        /\ outcome = "ok"
        /\ op' = DocOp("find", at, NoChar, SomeWord(q), d, NoUntil,
                       Document_find(rows, q, at, d), FALSE, NoPos)
        /\ UNCHANGED <<rows, dirty, outcome, opts, filename, file, rowVars, editorVars>>

Next ==
    \/ DocInsert
    \/ DocDelete
    \/ DocFind

Spec == Init /\ [][Next]_vars

----------------------------------------------------------------------------
(* Specification of edits of a highlighted Document: a small Document that *)
(* is highlighted as a whole and edited, in any order                      *)

MaxEditLen == 2
MaxEditRows == 2

EditDocChars == {"a", CombiningAcute}
EditPositions == {Pos(x, y) : x \in 0..MaxEditLen, y \in 0..(MaxEditRows + 1)}

InitEdit ==
    /\ \E n \in 0..MaxEditRows :
            \E ts \in [1..n -> SeqsUpTo(EditDocChars, MaxEditLen)] :
                rows = Document_open(ts)
    /\ dirty = FALSE
    /\ opts = OptsAll
    /\ outcome = "ok"
    /\ op = DocNoOp
    /\ filename = SomeName(RustFileName)
    /\ file = NoFile
    /\ RowIdle
    /\ EditorIdle

InEditBounds(rs) ==
    /\ Len(rs) <= MaxEditRows
    /\ \A k \in 1..Len(rs) : Len(rs[k].string) <= MaxEditLen

EditInsert ==
    \E at \in EditPositions, c \in EditDocChars \cup {NL} :
        LET res == Document_insert(rows, dirty, at, c)
        IN  /\ outcome = "ok"
            /\ InEditBounds(res.rows)
            /\ rows' = res.rows /\ dirty' = res.dirty /\ outcome' = res.out
            /\ op' = DocOp("insert", at, c, NoWord, Forward, NoUntil, NoPos, FALSE,
                           NoPos)
            /\ UNCHANGED <<opts, filename, file, rowVars, editorVars>>

EditDelete ==
    \E at \in EditPositions :
        LET res == Document_delete(rows, dirty, at)
        IN  /\ outcome = "ok"
            /\ InEditBounds(res.rows)
            /\ rows' = res.rows /\ dirty' = res.dirty /\ outcome' = res.out
            /\ op' = DocOp("delete", at, NoChar, NoWord, Forward, NoUntil, NoPos, FALSE,
                           NoPos)
            /\ UNCHANGED <<opts, filename, file, rowVars, editorVars>>

\* document.highlight(&None, None): every row
EditHighlight ==
    LET res == Document_highlight(rows, opts, NoWord, NoUntil)
    IN  /\ outcome = "ok"
        /\ rows' = res.rows
        /\ outcome' = res.out
        /\ op' = DocOp("highlight", NoPos, NoChar, NoWord, Forward, NoUntil, NoPos,
                       FALSE, NoPos)
        /\ UNCHANGED <<dirty, opts, filename, file, rowVars, editorVars>>

NextEdit ==
    \/ EditInsert
    \/ EditDelete
    \/ EditHighlight

SpecEdit == InitEdit /\ [][NextEdit]_vars

----------------------------------------------------------------------------
(* Specification of saving: a Document that is edited, saved with any fate *)
(* of the I/O, and opened again from the file the save left                *)

MaxSaveLen == 1
MaxSaveRows == 2

SaveChars == {"a", CR, Euro}
SavePositions == {Pos(x, y) : x \in 0..MaxSaveLen, y \in 0..MaxSaveRows}

\* the last operation on the Document: save and open record their Result, save
\* the fate of its I/O as well ("" when it did none)
SaveOp(name, at, c, io, result) ==
    [name |-> name, at |-> at, c |-> c, io |-> io, result |-> result]

InitSave ==
    /\ \/ rows = <<>> /\ filename = NoName
       \/ /\ \E n \in 0..MaxSaveRows :
                \E ts \in [1..n -> SeqsUpTo({"a"}, MaxSaveLen)] : rows = Document_open(ts)
          /\ filename = SomeName(FileName)
    /\ dirty = FALSE
    /\ opts = OptsNone
    /\ outcome = "ok"
    /\ op = SaveOp("none", NoPos, NoChar, "", "")
    /\ file = NoFile
    /\ RowIdle
    /\ EditorIdle

InSaveBounds(rs) ==
    /\ Len(rs) <= MaxSaveRows
    /\ \A k \in 1..Len(rs) : Len(rs[k].string) <= MaxSaveLen

SaveInsert ==
    \E at \in SavePositions, c \in SaveChars \cup {NL} :
        LET res == Document_insert(rows, dirty, at, c)
        IN  /\ outcome = "ok"
            /\ InSaveBounds(res.rows)
            /\ rows' = res.rows /\ dirty' = res.dirty /\ outcome' = res.out
            /\ op' = SaveOp("insert", at, c, "", "")
            /\ UNCHANGED <<opts, filename, file, rowVars, editorVars>>

SaveDelete ==
    \E at \in SavePositions :
        LET res == Document_delete(rows, dirty, at)
        IN  /\ outcome = "ok"
            /\ rows' = res.rows /\ dirty' = res.dirty /\ outcome' = res.out
            /\ op' = SaveOp("delete", at, NoChar, "", "")
            /\ UNCHANGED <<opts, filename, file, rowVars, editorVars>>

\* document.save()
DocSave ==
    \E io \in IoFates(rows) :
        LET res == Document_save(rows, dirty, filename, file, io)
        IN  /\ outcome = "ok"
            /\ dirty' = res.dirty /\ file' = res.file
            /\ op' = SaveOp("save", NoPos, NoChar,
                            IF filename.some THEN io.kind ELSE "", res.result)
            /\ UNCHANGED <<rows, filename, opts, outcome, rowVars, editorVars>>

\* Editor::save() with any answer to its prompt and any fate of the I/O
EditorSave ==
    \E new_name \in {NoName, SomeName(FileName)}, io \in IoFates(rows) :
        LET res == Editor_save(rows, dirty, filename, file, new_name, io)
        IN  /\ outcome = "ok"
            /\ filename' = res.filename
            /\ dirty' = res.dirty /\ file' = res.file
            /\ op' = SaveOp("save", NoPos, NoChar, res.io, res.result)
            /\ UNCHANGED <<rows, opts, outcome, rowVars, editorVars>>

\* the editor is started again on the file the Document was saved to:
\* Document::open(filename), Document::default() when that fails
DocOpen ==
    \E readable \in BOOLEAN :
        LET contents == IF readable THEN Decode(file) ELSE Invalid
        IN  /\ outcome = "ok"
            /\ filename.some /\ file # NoFile
            /\ IF contents = Invalid
               THEN /\ rows' = <<>> /\ filename' = NoName
                    /\ op' = SaveOp("open", NoPos, NoChar, "", "Err")
               ELSE /\ rows' = Document_open(Lines(contents))
                    /\ filename' = filename
                    /\ op' = SaveOp("open", NoPos, NoChar, "", "Ok")
            /\ dirty' = FALSE
            /\ UNCHANGED <<file, opts, outcome, rowVars, editorVars>>

NextSave ==
    \/ SaveInsert
    \/ SaveDelete
    \/ DocSave
    \/ EditorSave
    \/ DocOpen

SpecSave == InitSave /\ [][NextSave]_vars

----------------------------------------------------------------------------
(* Specification of the commands: a Document that is edited and takes the   *)
(* commands of the `:` prompt, until the quit flag ends the loop of run()   *)

\* what the `:` prompt returns: "" when it returns None, "x" for any text that
\* is not a command
Commands == {"", "w", "q", "q!", "wq", "x"}

\* a command as the last operation: the command, and the fate and the Result
\* of the save it made ("" when it made none)
CmdOp(cmd, io, result) ==
    [name |-> "command", at |-> NoPos, c |-> NoChar, io |-> io, result |-> result,
     cmd |-> cmd]

\* Editor::parse_command()
ParseCommand ==
    \E cmd \in Commands, new_name \in {NoName, SomeName(FileName)}, io \in IoFates(rows) :
        LET saved == IF cmd \in {"w", "wq"}
                     THEN Editor_save(rows, dirty, filename, file, new_name, io)
                     ELSE [dirty |-> dirty, file |-> file, filename |-> filename,
                           io |-> "", result |-> ""]
        IN  /\ outcome = "ok"
            /\ dirty' = saved.dirty /\ file' = saved.file /\ filename' = saved.filename
            /\ quit' = CASE cmd = "q"  -> Editor_quit(dirty, quit, FALSE)
                         [] cmd = "q!" -> Editor_quit(dirty, quit, TRUE)
                         [] cmd = "wq" -> Editor_quit(saved.dirty, quit, FALSE)
                         [] OTHER      -> quit
            /\ op' = CmdOp(cmd, saved.io, saved.result)
            /\ UNCHANGED <<rows, opts, outcome, rowVars, mode, cursor_pos>>

\* a key of Insert mode: document.insert at the cursor
KeyInsert == ~quit /\ SaveInsert

\* Backspace in Insert mode: document.delete at the cursor
KeyDelete == ~quit /\ SaveDelete

\* `:` in Normal mode
KeyCommand == ~quit /\ ParseCommand

\* Editor::run(): keys are processed until the quit flag is set
NextCommand ==
    \/ KeyInsert
    \/ KeyDelete
    \/ KeyCommand

SpecCommand == InitSave /\ [][NextCommand]_vars

----------------------------------------------------------------------------
(* Specification of the keys: the loop of Editor::run() on a small Document, *)
(* one action for each mode's handling of the key read.  refresh_screen is  *)
(* left out: it draws, and highlights a Document that has no filetype       *)

\* most chars in the Document, and most rows
MaxKeyChars == 4
MaxKeyRows == 2

\* the chars typed in Insert mode, besides Tab and Enter
KeyChars == {"a", CombiningAcute}

\* the keys read in Insert mode: "F" is any key with no arm of its own
InsertKeys ==
    {Char(c) : c \in KeyChars \cup {TAB, NL}}
        \cup {Key(k) : k \in {"Delete", "Backspace", "Up", "Down", "Left", "Right", "Esc", "F"}}

\* the keys read in Normal mode but ':' and '/': 'z' is any char with no arm
\* of its own, Esc any key that is neither a char nor Backspace
NormalKeys ==
    {Char(c) : c \in {"i", "a", "A", "I", "v", "h", "j", "k", "l", "x", "s", "o", "O",
                      "^", "z"}}
        \cup {Key(k) : k \in {"Backspace", "Esc"}}

\* the keys typed at the prompt of search() before Enter or Esc
MaxSearchKeys == 2
SearchKeys == {Char("a"), Char("n"), Char("N"), Key("Backspace")}

\* the last iteration of the loop, as the last operation: the key it read, NoKey
\* when it read none
KeyOp(key) == [name |-> "key", key |-> key]

\* the same with no more of the key than that one was read
KeyTaken(key) == KeyOp(IF key = NoKey THEN NoKey ELSE Key("Any"))

\* no iteration yet
KeyNone == [name |-> "none", key |-> NoKey]

RECURSIVE CharCount(_)
CharCount(rs) == IF rs = <<>> THEN 0 ELSE Len(rs[1].string) + CharCount(Tail(rs))

\* the Documents of at most so many rows and chars
Fits(rs, maxRows, maxChars) == Len(rs) <= maxRows /\ CharCount(rs) <= maxChars

\* what is kept of the key read: the key, or no more than that one was read
Recorded(key, whole) == IF whole THEN KeyOp(key) ELSE KeyTaken(key)

\* the Editor as Editor::default() builds it, on no file or on a file whose
\* Document fits
InitKeysIn(maxRows, maxChars) ==
    /\ \/ rows = <<>> /\ filename = NoName
       \/ /\ \E n \in 1..MaxKeyRows :
                \E ts \in [1..n -> SeqsUpTo({"a"}, 1)] : rows = Document_open(ts)
          /\ Fits(rows, maxRows, maxChars)
          /\ filename = SomeName(FileName)
    /\ dirty = FALSE
    /\ opts = OptsNone
    /\ outcome = "ok"
    /\ op = KeyNone
    /\ file = NoFile
    /\ RowIdle
    /\ EditorIdle

InitKeys == InitKeysIn(MaxKeyRows, MaxKeyChars)

\* the part of the Editor the keys act on
ThisEditor == Ed(rows, dirty, cursor_pos, mode, outcome)

\* process_keypress() returns with the Editor as the handler left it; o is what
\* is kept of the key
Processed(e, o) ==
    /\ rows' = e.rows /\ dirty' = e.dirty /\ cursor_pos' = e.cursor_pos
    /\ mode' = e.mode /\ outcome' = e.out
    /\ op' = o
    /\ UNCHANGED <<opts, filename, file, rowVars, quit>>

\* the loop of run() goes on
Running == ~quit /\ outcome = "ok"

\* Mode::Normal => self.normal_process_keypress(), for the Documents that fit
NormalKeyIn(maxRows, maxChars, whole) ==
    \E key \in NormalKeys :
        LET e == normal_process_keypress(ThisEditor, key)
        IN  /\ Running /\ mode = Normal
            /\ Fits(e.rows, maxRows, maxChars)
            /\ Processed(e, Recorded(key, whole))

\* '/' in Normal mode: search() with the keys typed at its prompt
NormalSearchIn(whole) ==
    \E keys \in SeqsUpTo(SearchKeys, MaxSearchKeys), last \in {"Char", "Esc"} :
        /\ Running /\ mode = Normal
        /\ Processed(search(ThisEditor, keys, last), Recorded(Char("/"), whole))

\* Mode::Insert => self.insert_process_keypress(), for the Documents that fit
InsertKeyIn(maxRows, maxChars, whole) ==
    \E key \in InsertKeys :
        LET e == insert_process_keypress(ThisEditor, key)
        IN  /\ Running /\ mode = Insert
            /\ Fits(e.rows, maxRows, maxChars)
            /\ Processed(e, Recorded(key, whole))

\* Mode::Visual => (): the iteration reads no key
VisualLoopIn(whole) ==
    /\ Running /\ mode = Visual
    /\ Processed(ThisEditor, Recorded(NoKey, whole))

NormalKey == NormalKeyIn(MaxKeyRows, MaxKeyChars, FALSE)
NormalSearch == NormalSearchIn(FALSE)
InsertKey == InsertKeyIn(MaxKeyRows, MaxKeyChars, FALSE)
VisualLoop == VisualLoopIn(FALSE)

NextKeys ==
    \/ NormalKey
    \/ NormalSearch
    \/ InsertKey
    \/ VisualLoop

SpecKeys == InitKeys /\ [][NextKeys]_vars

----------------------------------------------------------------------------
(* Specification of the modes: the loop of Editor::run() with every key and *)
(* the commands of the `:` prompt, on a Document of a char or two, and with *)
(* the key each iteration read on record                                    *)

MaxModeChars == 1
MaxModeRows == 2

InitModes == InitKeysIn(MaxModeRows, MaxModeChars)

ModeNormalKey == NormalKeyIn(MaxModeRows, MaxModeChars, TRUE)
ModeSearch == NormalSearchIn(TRUE)
ModeInsertKey == InsertKeyIn(MaxModeRows, MaxModeChars, TRUE)
ModeVisualLoop == VisualLoopIn(TRUE)

\* ':' in Normal mode
ModeCommand == Running /\ mode = Normal /\ ParseCommand

NextModes ==
    \/ ModeNormalKey
    \/ ModeSearch
    \/ ModeInsertKey
    \/ ModeVisualLoop
    \/ ModeCommand

SpecModes == InitModes /\ [][NextModes]_vars
----------------------------------------------------------------------------
(* Claims about Row::highlight, under SpecRowHighlight *)

IsHighlight == rop.name = "highlight"
\* the last call ran the full pass and returned
FullPassDone == IsHighlight /\ rop.c = "full" /\ outcome = "ok"

\* C3: highlighting is idempotent: a second call of Row::highlight on the
\* unmodified row with the same options, search word and incoming comment state
\* yields the same tags and returns the same continuation boolean as the first.
C3_HighlightIdempotent ==
    [][(/\ IsHighlight /\ outcome = "ok"
        /\ rop'.name = "highlight" /\ outcome' = "ok"
        /\ rop'.word = rop.word /\ rop'.swc = rop.swc)
       => (row'.highlighting = row.highlighting /\ rop'.retb = rop.retb)]_vars

\* C5: after a full pass of Row::highlight there is exactly one tag per char:
\* the number of tags equals the number of chars of the row's text.
C5_OneTagPerChar ==
    FullPassDone => Len(row.highlighting) = Len(row.string)

\* a row on which only the number classifier and the None fallback can act:
\* no comment, string or char-literal opener, and no keyword letters
PlainChars == AsciiDigits \cup {"x", " ", "=", ".", ";"}
IsPlainRow(s) == \A k \in 1..Len(s) : s[k] \in PlainChars

\* a digit at row start or directly after a separator
NumberStart(s, i) == is_ascii_digit(s[i]) /\ (i = 1 \/ is_sep(s[i - 1]))
\* position j lies in the run of digits and '.' that begins at such a digit
InNumberRun(s, j) ==
    \E i \in 1..j : NumberStart(s, i)
                    /\ \A k \in i..j : is_ascii_digit(s[k]) \/ s[k] = "."

\* C8: number rule: with numbers enabled a full pass over a row returns with
\* exactly the chars of the digit-and-'.' runs that begin at row start or after
\* a separator tagged Number (so the 1 of "x1" is not, and the 1 of "x = 1",
\* the last token of its row, is).
C8_NumberRule ==
    (/\ IsHighlight /\ rop.c = "full" /\ opts.numbers
     /\ ~rop.swc /\ ~rop.word.some /\ IsPlainRow(row.string))
    => /\ outcome = "ok"
       /\ Len(row.highlighting) = Len(row.string)
       /\ \A j \in 1..Len(row.string) :
              (row.highlighting[j] = T_Number) <=> InNumberRun(row.string, j)

\* the keyword list a keyword tag comes from
KeywordsOf(tag) ==
    IF tag = T_PrimaryKeywords THEN opts.primary_keywords ELSE opts.secondary_keywords

\* chars i (1-based) of s lies in an occurrence of a keyword of `tag` that is
\* bounded by separators (or the row's ends) on both sides
InBoundedKeyword(s, i, tag) ==
    \E k \in 1..Len(KeywordsOf(tag)) :
        LET w == KeywordsOf(tag)[k]
        IN  \E b \in 1..i :
                /\ i < b + Len(w)
                /\ b + Len(w) - 1 <= Len(s)
                /\ SubSeq(s, b, b + Len(w) - 1) = w
                /\ (b > 1 => is_sep(s[b - 1]))
                /\ (b + Len(w) <= Len(s) => is_sep(s[b + Len(w)]))

IfCondition == <<"i", "f", "C", "o", "n", "d", "i", "t", "i", "o", "n">>
IfParen == <<"i", "f", " ", "(", "x", ")">>

\* C9: keyword boundary rule: a char is tagged as a (primary or secondary)
\* keyword only inside an occurrence of a configured keyword whose neighbours,
\* where they exist, are separators; with primary keyword "if" the "if" of
\* "ifCondition" is not tagged and the "if" of "if (x)" is.
C9_KeywordBoundary ==
    outcome = "ok" =>
        /\ \A i \in 1..Len(row.highlighting) :
               row.highlighting[i] \in {T_PrimaryKeywords, T_SecondaryKeywords}
                   => /\ i <= Len(row.string)
                      /\ InBoundedKeyword(row.string, i, row.highlighting[i])
        /\ (FullPassDone /\ opts = OptsAll /\ ~rop.swc /\ rop.word # SomeWord(<<"i", "f">>))
               => /\ row.string = IfCondition
                      => T_PrimaryKeywords \notin {row.highlighting[i] : i \in 1..2}
                  /\ row.string = IfParen
                      => /\ row.highlighting[1] = T_PrimaryKeywords
                         /\ row.highlighting[2] = T_PrimaryKeywords

\* C9's case: "if (x)" was highlighted and its "if" carries the keyword tag,
\* and nothing after it does
C9_Witness ==
    /\ FullPassDone /\ row.string = IfParen
    /\ SubSeq(row.highlighting, 1, 3) = <<T_PrimaryKeywords, T_PrimaryKeywords, T_None>>

\* C21: a full highlight pass over a row terminates: every classifier that
\* succeeds consumes at least one char and stops at the end of the row, so the
\* loop of Row::highlight leaves after at most one step per char.
C21_FullPassTerminates ==
    (IsHighlight /\ rop.c = "full") => outcome # "hang"

\* the final two chars of the text are the closer of a block comment
LastTwoAreCloser(s) == Len(s) >= 2 /\ SubSeq(s, Len(s) - 1, Len(s)) = Closer

\* the last tag of the row is MultilineComment
LastTagIsMultiline(r) ==
    r.highlighting # <<>> /\ r.highlighting[Len(r.highlighting)] = T_MultilineComment

\* the last call took the early return of a cached row
FastPathDone == IsHighlight /\ rop.c = "fast" /\ outcome = "ok"

\* C22: on the fast path (the row is highlighted and there is no search word)
\* Row.highlight keeps the tags and returns true exactly when the row's last tag
\* is MultilineComment and its final two chars are not the closer; a cached row
\* that ends with the closer returns false.
C22_FastPathContinuation ==
    FastPathDone =>
        (rop.retb <=> (LastTagIsMultiline(row) /\ ~LastTwoAreCloser(row.string)))

RECURSIVE EndsInComment(_, _, _)
\* whether text s, read from char i on in block-comment state inC, ends inside
\* a block comment: `/*` opens one, the first `*/` after it closes it, `//`
\* outside a block comment runs to the end of the row
EndsInComment(s, i, inC) ==
    IF i >= Len(s) THEN inC
    ELSE IF inC
    THEN LET p == StrFind(From(s, i), Closer)
         IN  IF p = -1 THEN TRUE ELSE EndsInComment(s, i + p + 2, FALSE)
    ELSE IF Get(s, i) = "/" /\ Get(s, i + 1) = "*" THEN EndsInComment(s, i + 2, TRUE)
    ELSE IF Get(s, i) = "/" /\ Get(s, i + 1) = "/" THEN FALSE
    ELSE EndsInComment(s, i + 1, FALSE)

\* a row of comment delimiters and plain chars: no quote opens a string or a
\* char literal in it
NoQuotes(s) == \A k \in 1..Len(s) : s[k] \notin {"\"", "'"}

\* C23: with comments enabled a full pass of Row.highlight returns true if and only if the row ends
\* inside an unterminated multiline comment: the scan reached the end of the row
\* inside a block comment without a closer for it (so `/*/` returns true and a
\* row whose last comment is closed returns false).
C23_FullPassContinuation ==
    (/\ FullPassDone /\ opts.multiline_comments /\ opts.comments
     /\ NoQuotes(row.string))
        => (rop.retb <=> EndsInComment(row.string, 0, rop.swc))

RECURSIVE OccurrenceChars(_, _, _)
\* the char indices (0-based) of the non-overlapping occurrences of w in s
\* found left to right from char `from`, each search resuming right after the
\* match before it
OccurrenceChars(s, w, from) ==
    LET p == StrFind(From(s, from), w)
    IN  IF p = -1 THEN {}
        ELSE ((from + p)..(from + p + Len(w) - 1))
                 \cup OccurrenceChars(s, w, from + p + Len(w))

IsAsciiText(s) == \A k \in 1..Len(s) : IsAscii(s[k])

\* C24: after a full pass with a non-empty search word, every char of every
\* non-overlapping occurrence of the word in the row is tagged Match, the second
\* and later occurrences included, and no char outside them is.
C24_SearchOverlay ==
    (FullPassDone /\ rop.word.some /\ rop.word.s # <<>> /\ IsAsciiText(row.string))
        => LET occ == OccurrenceChars(row.string, rop.word.s, 0)
           IN  /\ \A i \in occ : /\ i < Len(row.highlighting)
                                  /\ row.highlighting[i + 1] = T_Match
               /\ \A j \in 1..Len(row.highlighting) :
                      row.highlighting[j] = T_Match => (j - 1) \in occ

\* C27: after Row.highlight completes a full pass the row's highlighted flag is
\* true, whatever boolean the pass returns, also for a row that ends inside an
\* unterminated block comment.
C27_FullPassSetsFlag ==
    FullPassDone => row.is_highlighted
----------------------------------------------------------------------------
(* Claims about the Row edit operations, under SpecRowEdit *)

\* C7: each row's cached length equals the number of grapheme clusters of its
\* text, after any sequence of Row insert / delete / split / append.
C7_LenIsGraphemeCount ==
    row.len = GraphemeCount(row.string)

\* the last two operations were insert(i, c) then delete(i) with i <= the
\* length the row had before the insert; prevString / prevLen of the state
\* before the delete are the original text and length
InsertThenDelete ==
    /\ rop.name = "insert" /\ rop'.name = "delete" /\ rop'.at = rop.at
    /\ rop.at <= prevLen

\* C10: for every row, every i <= length and every character c, insert(i, c)
\* followed by delete(i) leaves text and length as they were.
C10_InsertDeleteIdentity ==
    [][InsertThenDelete => (row'.string = prevString /\ row'.len = prevLen)]_vars

\* self holds clusters [0, at) and the returned row clusters [at, length) of
\* the text before the split
SplitHalves(before, self, returned, at) ==
    LET gs == graphemes(before)
        i  == Min(at, Len(gs))
    IN  /\ self.string = Concat(SubSeq(gs, 1, i))
        /\ self.len = i
        /\ returned.string = Concat(SubSeq(gs, i + 1, Len(gs)))
        /\ returned.len = Len(gs) - i

\* the last two operations were split(i) and the append of the row it returned
SplitThenAppend ==
    rop.name = "split" /\ rop'.name = "append" /\ rop'.other = rop.other

\* C11: for every row and every split point i, split(i) leaves clusters [0, i)
\* in self and returns clusters [i, length), and appending the returned row
\* reproduces the original text and length.
C11_SplitAppendRoundTrip ==
    [][/\ rop'.name = "split" => SplitHalves(row.string, row', rop'.other, rop'.at)
       /\ SplitThenAppend => (row'.string = prevString /\ row'.len = prevLen)]_vars

\* the grapheme indices i of the text where a run of whole clusters that starts
\* at cluster i spells the query, with the index one past the run
ClusterMatches(text, query) ==
    LET gs == graphemes(text)
    IN  {m \in (0..Len(gs)) \X (0..Len(gs)) :
            /\ m[1] < m[2]
            /\ Concat(SubSeq(gs, m[1] + 1, m[2])) = query}

\* what Row.find is to return: the smallest match index >= at for Forward, the
\* largest index of a match that lies wholly before at for Backward, none for
\* an empty query, at > length or no such match
FindExpected(r, query, at, direction) ==
    LET ms == IF direction = Forward
              THEN {m[1] : m \in {n \in ClusterMatches(r.string, query) : n[1] >= at}}
              ELSE {m[1] : m \in {n \in ClusterMatches(r.string, query) : n[2] <= at}}
    IN  IF query = <<>> \/ at > r.len \/ ms = {} THEN NoMatch
        ELSE IF direction = Forward THEN CHOOSE i \in ms : \A j \in ms : i <= j
        ELSE CHOOSE i \in ms : \A j \in ms : i >= j

\* C15: Row.find(query, at, Forward) returns the smallest grapheme index >= at
\* at which the row's clusters spell the query, Row.find(query, at, Backward)
\* the largest index of a match wholly before at, and none when the query is
\* empty, at exceeds the length or there is no such match.
C15_RowFindNearest ==
    rop.name = "find" =>
        rop.reti = FindExpected(row, rop.word.s, rop.at, rop.c)

\* the query occurs exactly once in the row
OneOccurrence(r, query) == Cardinality(ClusterMatches(r.string, query)) = 1

\* the last two operations were find(q, 0, Forward) and find(q, length, Backward)
\* with the same q
ForwardThenBackward ==
    /\ rop.name = "find" /\ rop.c = Forward /\ rop.at = 0
    /\ rop'.name = "find" /\ rop'.c = Backward /\ rop'.at = row.len
    /\ rop'.word = rop.word

\* C16: on a row that holds exactly one occurrence of q, find(q, 0, Forward)
\* and find(q, length, Backward) return the same index.
C16_ForwardBackwardAgree ==
    [][(ForwardThenBackward /\ OneOccurrence(row, rop.word.s))
       => rop'.reti = rop.reti]_vars

----------------------------------------------------------------------------
(* Claims about the Document edits, under Spec *)

\* C1: Document.insert, Document.delete and Document.find return for every
\* position and every char, the newline included: none of them panics.
C1_EditsNeverPanic ==
    op.name \in {"insert", "delete", "find"} => outcome = "ok"

\* the texts of the rows, in order
Texts(rs) == [k \in 1..Len(rs) |-> rs[k].string]

\* the texts with rows y and y + 1 joined into one
JoinAt(ts, y) ==
    SubSeq(ts, 1, y) \o <<ts[y + 1] \o ts[y + 2]>> \o SubSeq(ts, y + 3, Len(ts))

\* this step is insert({x, y}, newline) with y < row_count and x <= length(row y)
NewlineInserted ==
    /\ op'.name = "insert" /\ op'.c = NL
    /\ op'.at.y < Len(rows)
    /\ op'.at.x <= rows[op'.at.y + 1].len

\* the state follows such an insert, and this step is the delete at the end of
\* row y
MergedAfterNewline ==
    /\ op.name = "insert" /\ op.c = NL /\ outcome = "ok"
    /\ op.at.y + 1 < Len(rows)
    /\ op.at.x <= rows[op.at.y + 1].len + rows[op.at.y + 2].len
    /\ op'.name = "delete"
    /\ op'.at = Pos(rows[op.at.y + 1].len, op.at.y)

\* C12: for every row y < row_count and every x <= length(row y),
\* insert({x, y}, newline) adds exactly one row after y, row y keeping the first
\* x clusters and the new row the rest (an empty row when x is the row length),
\* and a following delete at the end of row y restores the original row
\* sequence.
C12_MergeReversesSplit ==
    [][/\ NewlineInserted =>
            LET y == op'.at.y
                x == op'.at.x
            IN  /\ outcome' = "ok"
                /\ Len(rows') = Len(rows) + 1
                /\ JoinAt(Texts(rows'), y) = Texts(rows)
                /\ rows'[y + 1].string
                        = LET gs == graphemes(rows[y + 1].string)
                          IN  Concat(SubSeq(gs, 1, Min(x, Len(gs))))
                /\ x = rows[y + 1].len => rows'[y + 2].string = <<>>
       /\ MergedAfterNewline =>
            /\ outcome' = "ok"
            /\ Texts(rows') = JoinAt(Texts(rows), op.at.y)]_vars

\* a newline was inserted inside row y and the delete at the end of row y has
\* joined the two rows again
C12_Witness ==
    /\ op.name = "delete" /\ op.after # NoPos
    /\ op.after.y = op.at.y /\ op.after.y < Len(rows)
    /\ op.after.x = op.at.x /\ 0 < op.at.x /\ op.at.x < rows[op.at.y + 1].len
    /\ Len(rows) = 2

\* the occurrences of the query in the document: the position where each
\* starts and the column one past it
Occurrences(rs, query) ==
    UNION {{[pos |-> Pos(m[1], y), end |-> m[2]] :
                m \in ClusterMatches(rs[y + 1].string, query)} :
           y \in 0..(Len(rs) - 1)}

\* the order of positions: row, then column
PosLeq(p, q) == p.y < q.y \/ (p.y = q.y /\ p.x <= q.x)

\* what Document.find is to return: the least occurrence at or after `at` for
\* Forward, the greatest occurrence that lies before `at` for Backward, none
\* when there is no such occurrence or at.y exceeds the row count
DocFindExpected(rs, query, at, direction) ==
    LET occ   == Occurrences(rs, query)
        cands == IF direction = Forward
                 THEN {o.pos : o \in {n \in occ : PosLeq(at, n.pos)}}
                 ELSE {o.pos : o \in {n \in occ : n.pos.y < at.y
                                        \/ (n.pos.y = at.y /\ n.end <= at.x)}}
    IN  IF at.y > Len(rs) \/ cands = {} THEN NoPos
        ELSE IF direction = Forward
        THEN CHOOSE p \in cands : \A q \in cands : PosLeq(p, q)
        ELSE CHOOSE p \in cands : \A q \in cands : PosLeq(q, p)

\* C17: Document.find returns the match nearest to `at` in the scan direction:
\* Forward the least position >= at where the query occurs, Backward the
\* greatest position of a match lying before at; none if there is no such match
\* or at.y exceeds the row count; a returned position is an occurrence.
C17_DocFindNearest ==
    op.name = "find" =>
        /\ op.found = DocFindExpected(rows, op.word.s, op.at, op.dir)
        /\ op.found # NoPos => \E o \in Occurrences(rows, op.word.s) : o.pos = op.found

\* the texts before row y are the same, and the texts after row y are the
\* same in the same order, one place further when a row was created at y + 1
\* and one place nearer when row y + 1 was removed
OtherRowsKept(before, after, y) ==
    LET shift == Len(after) - Len(before)
    IN  /\ shift \in {-1, 0, 1}
        /\ \A k \in 1..Len(before) :
                /\ k < y + 1 => (k <= Len(after) /\ after[k] = before[k])
                /\ (k > y + 1 /\ k + shift > y + 1) =>
                        (k + shift <= Len(after) /\ after[k + shift] = before[k])

\* C20: a Document.insert or Document.delete at row y changes the text of at
\* most row y and one adjacent row that is created or removed at y + 1; the
\* texts and the relative order of all other rows are unchanged.
C20_EditIsLocal ==
    [][op'.name \in {"insert", "delete"}
       => OtherRowsKept(Texts(rows), Texts(rows'), op'.at.y)]_vars

\* a newline was inserted in the first of several rows: the rows after it
\* have moved one place
C20_Witness ==
    /\ op.name = "insert" /\ op.c = NL /\ op.at.y = 0 /\ outcome = "ok"
    /\ Len(rows) = MaxRows /\ rows[MaxRows].string # <<>>

----------------------------------------------------------------------------
(* Claims about edits of a highlighted Document, under SpecEdit *)

\* this step is an insert with pos.y > row_count or a delete with
\* pos.y >= row_count
BeyondRows ==
    \/ op'.name = "insert" /\ op'.at.y > Len(rows)
    \/ op'.name = "delete" /\ op'.at.y >= Len(rows)

\* C18: Document.insert with pos.y > row_count and Document.delete with
\* pos.y >= row_count change nothing: the row sequence, every row's text, tags
\* and highlighted flag, and the dirty flag stay as they are.
C18_BeyondRowsNoChange ==
    [][BeyondRows => (rows' = rows /\ dirty' = dirty /\ outcome' = "ok")]_vars

\* a delete below the last row of a highlighted, unmodified Document has
\* returned
C18_Witness ==
    /\ op.name = "delete" /\ op.at.y >= Len(rows)
    /\ rows # <<>> /\ \A k \in 1..Len(rows) : rows[k].is_highlighted
    /\ ~dirty

\* this step is an insert or a delete that is not a no-op on pos.y, and it
\* returned
EditedRow ==
    /\ \/ op'.name = "insert" /\ op'.at.y <= Len(rows)
       \/ op'.name = "delete" /\ op'.at.y < Len(rows)
    /\ outcome' = "ok"

\* C26: right after a Document.insert or Document.delete that is not a no-op on
\* pos.y, the edited row pos.y and every row after it, a row created by a split
\* included, has highlighted = false.
C26_EditUnhighlights ==
    [][EditedRow =>
        \A k \in (op'.at.y + 1)..Len(rows') : ~rows'[k].is_highlighted]_vars

\* a char was inserted in a row that had been highlighted: the row keeps its
\* old tags and its flag is false
C26_Witness ==
    /\ op.name = "insert" /\ op.c # NL /\ outcome = "ok"
    /\ op.at.y < Len(rows)
    /\ rows[op.at.y + 1].highlighting # <<>>
    /\ Len(rows[op.at.y + 1].highlighting) < Len(rows[op.at.y + 1].string)
    /\ ~rows[op.at.y + 1].is_highlighted

RECURSIVE AllText(_)
\* the concatenation of all row texts
AllText(rs) == IF rs = <<>> THEN <<>> ELSE rs[1].string \o AllText(Tail(rs))

RECURSIVE TotalGraphemes(_)
\* the total grapheme count of the document
TotalGraphemes(rs) ==
    IF rs = <<>> THEN 0 ELSE GraphemeCount(rs[1].string) + TotalGraphemes(Tail(rs))

\* this step is an edit at a position with y < row_count and x <= length(row y)
EditInside ==
    /\ op'.name \in {"insert", "delete"}
    /\ op'.at.y < Len(rows)
    /\ op'.at.x <= rows[op'.at.y + 1].len

\* C29: for y < row_count and x <= length(row y), an insert of a char other
\* than the newline keeps the row count and adds exactly 1 to the total grapheme
\* count; an insert of a newline adds exactly one row and keeps the
\* concatenation of the row texts; a delete removes exactly one grapheme keeping
\* the row count, or at the end of a row with a row below removes one row
\* keeping the concatenation, or changes no text.
C29_ContentConservation ==
    [][EditInside =>
        /\ (op'.name = "insert" /\ op'.c # NL) =>
               /\ Len(rows') = Len(rows)
               /\ TotalGraphemes(rows') = TotalGraphemes(rows) + 1
        /\ (op'.name = "insert" /\ op'.c = NL) =>
               /\ Len(rows') = Len(rows) + 1
               /\ AllText(rows') = AllText(rows)
        /\ op'.name = "delete" =>
               \/ /\ Len(rows') = Len(rows)
                  /\ TotalGraphemes(rows') = TotalGraphemes(rows) - 1
               \/ /\ op'.at.x = rows[op'.at.y + 1].len /\ op'.at.y + 1 < Len(rows)
                  /\ Len(rows') = Len(rows) - 1
                  /\ AllText(rows') = AllText(rows)
               \/ Texts(rows') = Texts(rows)]_vars
----------------------------------------------------------------------------
(* Claims about saving, under SpecSave *)

\* the last operation was a save that wrote the whole file
SaveSucceeded == op.name = "save" /\ op.result = "Ok" /\ filename.some

\* C13: for every document reachable through insert and delete, whatever the
\* inserted chars, a successful save followed by an open of the same file gives
\* a row sequence identical to the saved one: as many rows, the same text in
\* each.
C13_SaveOpenRoundTrip ==
    [][(SaveSucceeded /\ op'.name = "open" /\ op'.result = "Ok")
       => Texts(rows') = Texts(rows)]_vars

\* this step is an insert with pos.y <= row_count or a delete with
\* pos.y < row_count
Edited ==
    \/ op'.name = "insert" /\ op'.at.y <= Len(rows)
    \/ op'.name = "delete" /\ op'.at.y < Len(rows)

\* this step is a save that succeeded with a filename set
SavedToFile == op'.name = "save" /\ op'.result = "Ok" /\ filename'.some

\* C14: the dirty flag is true after every insert with pos.y <= row_count and
\* every delete with pos.y < row_count, and a Document's flag goes from true to
\* false only through a save that succeeded with a filename set (an open
\* builds a new Document, whose flag is false).
C14_DirtyUntilSaved ==
    [][/\ Edited => dirty'
       /\ (dirty /\ ~dirty') => (SavedToFile \/ op'.name = "open")]_vars

\* a Document that was edited, it holds a carriage return only an insert can
\* have put there, has been saved and its flag is false
C14_Witness ==
    /\ op.name = "save" /\ op.result = "Ok" /\ filename.some /\ ~dirty
    /\ \E k \in 1..Len(rows) : rows[k].string = <<CR>>

\* C19: a save that does not succeed in writing the file (no filename set, or
\* the file cannot be created or written) never clears the dirty flag and never
\* changes the row sequence, and an I/O failure is returned as an error value.
C19_FailedSaveKeepsState ==
    [][op'.name = "save" =>
        /\ ~SavedToFile => ((dirty => dirty') /\ rows' = rows)
        /\ op'.io \in {"create", "write"} => op'.result = "Err"]_vars

\* a save of an edited Document failed in the middle of its writes
C19_Witness ==
    /\ op.name = "save" /\ op.io = "write" /\ op.result = "Err"
    /\ dirty /\ file # NoFile /\ file # <<>> /\ file # FileBytes(rows)

----------------------------------------------------------------------------
(* Claims about Document::highlight, under SpecDocHighlight *)

\* the rows Document::highlight(_, until) walks: rows 1..HighlightBound
HighlightBound(rs, until) ==
    IF until # NoUntil /\ until + 1 < Len(rs) THEN until + 1 ELSE Len(rs)

\* the same text with nothing cached
FromScratch(rs) == Document_open([k \in 1..Len(rs) |-> rs[k].string])

\* the last call was highlight(None, until) and it returned
HighlightedNoWord == op.name = "highlight" /\ ~op.word.some /\ outcome = "ok"

\* ... and no call before it had a search word either
OnlyHighlightedNoWord == HighlightedNoWord /\ ~op.searched

\* C2: after highlight calls with no search word, the tags of every row in
\* [0, until] of the latest call equal the tags a from-scratch highlight of the
\* same text assigns.
C2_IncrementalEqualsFromScratch ==
    OnlyHighlightedNoWord =>
        LET ref == Document_highlight(FromScratch(rows), opts, NoWord, op.until)
        IN  ref.out = "ok" =>
                \A k \in 1..HighlightBound(rows, op.until) :
                    rows[k].highlighting = ref.rows[k].highlighting

RECURSIVE InCommentAt(_, _)
\* whether row k (1-based) begins inside a block comment left open above it
InCommentAt(rs, k) ==
    IF k <= 1 THEN FALSE
    ELSE EndsInComment(rs[k - 1].string, 0, InCommentAt(rs, k - 1))

\* C4: a row below an unclosed `/*` is tagged MultilineComment entirely when it
\* holds no `*/`, and exactly through its first `*/` when it holds one.
C4_CommentPropagation ==
    OnlyHighlightedNoWord =>
        \A k \in 2..HighlightBound(rows, op.until) :
            InCommentAt(rows, k) =>
                LET s  == rows[k].string
                    hl == rows[k].highlighting
                    p  == StrFind(s, Closer)
                    n  == IF p = -1 THEN Len(s) ELSE p + 2
                IN  /\ Len(hl) = Len(s)
                    /\ \A j \in 1..n : hl[j] = T_MultilineComment
                    /\ (n < Len(s) /\ ~(Get(s, n) = "/" /\ Get(s, n + 1) = "*"))
                           => hl[n + 1] # T_MultilineComment

\* C6: Document.highlight returns for every document, every search word and
\* every until: it never panics.
C6_HighlightNeverPanics ==
    op.name = "highlight" => outcome # "panic"

RECURSIVE StateBefore(_, _, _, _)
\* the comment state row k (1-based) is to be highlighted with: false for the
\* first row, the boolean the row above returned for the others
StateBefore(rs, o, word, k) ==
    IF k <= 1 THEN FALSE
    ELSE Row_highlight(rs[k - 1], o, word, StateBefore(rs, o, word, k - 1)).ret

\* the number of rows highlight(_, until) is to process: through row
\* min(until, row_count - 1), all rows when until is omitted
RowsToProcess(rs, until) ==
    IF until = NoUntil THEN Len(rs) ELSE Min(until + 1, Len(rs))

\* C25: Document.highlight(word, until) highlights the rows in increasing order
\* from row 0 with comment state false, hands each row's returned boolean to the
\* next row, stops after row min(until, row_count - 1) (all rows when until is
\* omitted), and leaves the tags and flags of the rows beyond untouched.
C25_HighlightOrder ==
    [][(op'.name = "highlight" /\ outcome' = "ok") =>
        /\ Len(rows') = Len(rows)
        /\ \A k \in 1..Len(rows) :
               rows'[k] = IF k <= RowsToProcess(rows, op'.until)
                          THEN Row_highlight(rows[k], opts, op'.word,
                                             StateBefore(rows, opts, op'.word, k)).row
                          ELSE rows[k]]_vars

\* highlight(None, 1) has run on the three rows of the comment scenario: the
\* second row took the open comment of the first, the third row was left alone
C25_Witness ==
    /\ op.name = "highlight" /\ op.until = 1 /\ outcome = "ok"
    /\ Len(rows) = 3
    /\ rows[2].highlighting = [j \in 1..Len(rows[2].string) |-> T_MultilineComment]
    /\ rows[2].string # <<>>
    /\ rows[3].highlighting = <<>> /\ ~rows[3].is_highlighted

\* the last two operations were a highlight with a search word and a highlight
\* with none, and the second returned
SearchThenPlain ==
    /\ op.name = "highlight" /\ op.word.some
    /\ op'.name = "highlight" /\ ~op'.word.some /\ outcome' = "ok"

\* C28: search highlighting does not outlive the search: after
\* Document.highlight with a search word and then with none on the unmodified
\* document, no char of rows [0, until] is tagged Match.
C28_MatchDoesNotOutlive ==
    [][SearchThenPlain =>
        \A k \in 1..RowsToProcess(rows', op'.until) :
            \A j \in 1..Len(rows'[k].highlighting) :
                rows'[k].highlighting[j] # T_Match]_vars

----------------------------------------------------------------------------
(* Claims about the commands, under SpecCommand *)

\* this step is a command that sets the quit flag
QuitSet == op'.name = "command" /\ ~quit /\ quit'

\* C30: the editor never quits with unsaved changes unless forced: the quit
\* flag is set by the commands `:q` and `:wq` only in a state where
\* document.is_dirty() is false (for `:wq`, only after the save succeeded), and
\* only `:q!` sets it while the document is dirty.
C30_QuitOnlySaved ==
    [][QuitSet =>
        /\ op'.cmd \in {"q", "q!", "wq"}
        /\ op'.cmd \in {"q", "wq"} => ~dirty'
        /\ op'.cmd = "wq" => op'.result = "Ok"
        /\ dirty' => op'.cmd = "q!"]_vars

----------------------------------------------------------------------------
(* Claims about the cursor, under SpecKeys *)

\* C32: cursor bounds invariant: after every processed keypress in Normal or
\* Insert mode (cursor movement, character insert, Tab, Enter, Delete,
\* Backspace, `x`, `o`, `O`, search), cursor_pos.y <= document.len() and
\* cursor_pos.x <= the length of row cursor_pos.y (0 when that row does not
\* exist).  The length is row.len(), the one move_cursor clamps to.
C32_CursorInBounds ==
    (op.name = "key" /\ outcome = "ok")
        => /\ cursor_pos.y <= Len(rows)
           /\ cursor_pos.x <= WidthAt(rows, cursor_pos.y)

----------------------------------------------------------------------------
(* Claims about the modes, under SpecModes *)

\* the key read is Esc and the Editor is in Normal mode afterwards
EscToNormal == op' = KeyOp(Key("Esc")) /\ mode' = Normal

\* the loop can go on with Esc as the key read, and is in Normal mode then
EscLeadsToNormal ==
    \/ ENABLED (ModeNormalKey /\ EscToNormal)
    \/ ENABLED (ModeInsertKey /\ EscToNormal)
    \/ ENABLED (ModeVisualLoop /\ EscToNormal)

\* the loop can go on with a command that sets the quit flag
CanQuit == ENABLED (ModeCommand /\ quit')

\* C31: no editor mode is a dead end: in every mode (Normal, Insert, Visual)
\* each iteration of the run loop consumes one key event, and pressing Esc
\* leads the editor back to Normal mode, from which quit remains reachable.
C31_NoDeadEnd ==
    /\ op.name = "key" => op.key # NoKey
    /\ Running => EscLeadsToNormal
    /\ (Running /\ mode = Normal) => CanQuit

============================================================================
